---- MODULE Spec2Model ----
(***************************************************************************)
(* A model of scripts/aggregate-benchmarks.py: the BenchmarkAggregator     *)
(* object (all_runs, model_stats, task_stats), its operations, and the     *)
(* main() pipeline that drives it; and of bench/config: the ConfigWatcher  *)
(* of hotreload.py with its polling thread, and merge_configs of merger.py.*)
(*                                                                         *)
(* Conventions.                                                            *)
(*  - A JSON key that may be missing is an optional value: <<>> when the   *)
(*    key is absent and <<v>> when it is present; dict.get(k, d) is        *)
(*    Get(o, d).                                                           *)
(*  - Strings read from the records or the command line (model names, run *)
(*    ids, directory names, task names) are sequences of one-character     *)
(*    strings.                                                             *)
(*  - Accuracies are integers counting hundredths (57 is 0.57); derived    *)
(*    statistics are exact fractions [n, d] of hundredths.  A standard     *)
(*    deviation is carried as its square (the variance).                   *)
(*  - A dict is a sequence of entries in insertion order.                  *)
(***************************************************************************)
EXTENDS Integers, Sequences, FiniteSets, TLC

VARIABLES
    runs_dir,       \* the "runs" directory: [exists, entries], entries a set
    all_runs,       \* BenchmarkAggregator.all_runs
    model_stats,    \* BenchmarkAggregator.model_stats
    task_stats,     \* BenchmarkAggregator.task_stats
    pc,             \* where the caller stands ("api", or a position in main)
    args,           \* the arguments of main, or of the last call
    filtered_runs,  \* main's local filtered_runs / the last return value of filter_runs
    sorted_runs,    \* the last return value of sort_runs
    metadata,       \* the metadata document written, <<>> before it is written
    csv_rows,       \* the CSV rows written, <<>> before they are written
    summary,        \* the console summary printed, <<>> before it is printed
    last_op,        \* the operation that ran last
    raised,         \* the exception the last operation raised, "" for none
    passes,         \* aggregate_data calls since the tables were last empty
    calls,          \* number of operations called so far
    files,          \* the configuration files on disk: path -> [exists, mtime, config]
    watched_files,  \* ConfigWatcher.watched_files: entries [key, mtime] in insertion order
    callbacks,      \* ConfigWatcher.callbacks
    _running,       \* ConfigWatcher._running
    _thread,        \* ConfigWatcher._thread: 0 for None, or the number of a thread
    loops,          \* the threads created to run _watch_loop: position and locals
    callers,        \* the threads calling start() and stop(): position in the call
    notified,       \* the last round of callback invocations, <<>> before the first
    unwatched,      \* the paths whose unwatch returned with no watch since
    heap,           \* the dict objects in memory: heap[address] is a dict
    configs,        \* merge_configs' argument configs: the addresses of the dicts
    priorities,     \* merge_configs' argument priorities: <<>> for None, or <<list>>
    merged          \* what merge_configs returned: [ref, raised], <<>> before the call

aggregator_vars ==
    <<runs_dir, all_runs, model_stats, task_stats, pc, args, filtered_runs,
      sorted_runs, metadata, csv_rows, summary, last_op, raised, passes, calls>>

config_vars ==
    <<files, watched_files, callbacks, _running, _thread, loops, callers, notified,
      unwatched, heap, configs, priorities, merged>>

vars == <<aggregator_vars, config_vars>>

\* the configuration side where only the aggregator is looked at
ConfigUnused ==
    /\ files = <<>>
    /\ watched_files = <<>>
    /\ callbacks = {}
    /\ _running = FALSE
    /\ _thread = 0
    /\ loops = <<>>
    /\ callers = <<>>
    /\ notified = <<>>
    /\ unwatched = {}
    /\ heap = <<>>
    /\ configs = <<>>
    /\ priorities = <<>>
    /\ merged = <<>>

-----------------------------------------------------------------------------
(* Optional values and Python truthiness *)

None == <<>>
Some(v) == <<v>>
IsSome(o) == Len(o) > 0
Get(o, default) == IF Len(o) = 0 THEN default ELSE o[1]

\* bool(x) of an optional string (None and "" are falsy)
TruthyStr(o) == Len(o) > 0 /\ Len(o[1]) > 0
\* bool(x) of an optional number (None and 0 are falsy)
TruthyNum(o) == Len(o) > 0 /\ o[1] /= 0

-----------------------------------------------------------------------------
(* Strings as character sequences *)

Str_unknown == <<"u", "n", "k", "n", "o", "w", "n">>

\* ord(c) for the characters in use
Ord(c) ==
    CASE c = "-" -> 45 [] c = "0" -> 48 [] c = "1" -> 49 [] c = "2" -> 50 [] c = "3" -> 51
      [] c = "4" -> 52 [] c = "5" -> 53
      [] c = "G" -> 71 [] c = "L" -> 76 [] c = "P" -> 80 [] c = "R" -> 82 [] c = "T" -> 84
      [] c = "a" -> 97 [] c = "b" -> 98 [] c = "c" -> 99
      [] c = "g" -> 103 [] c = "k" -> 107 [] c = "l" -> 108 [] c = "m" -> 109
      [] c = "n" -> 110 [] c = "o" -> 111 [] c = "p" -> 112 [] c = "q" -> 113
      [] c = "r" -> 114
      [] c = "t" -> 116 [] c = "u" -> 117 [] c = "w" -> 119 [] c = "x" -> 120

\* str.lower() on one character
LowerChar(c) ==
    CASE c = "G" -> "g" [] c = "L" -> "l" [] c = "P" -> "p" [] c = "T" -> "t"
      [] OTHER -> c

\* str.lower()
Lower(s) == [i \in 1..Len(s) |-> LowerChar(s[i])]

\* sub in s
Contains(s, sub) ==
    \E k \in 0..(Len(s) - Len(sub)) :
        \A i \in 1..Len(sub) : s[k + i] = sub[i]

\* a < b for strings (code point order, a proper prefix is smaller)
RECURSIVE StrLess(_, _)
StrLess(a, b) ==
    IF Len(b) = 0 THEN FALSE
    ELSE IF Len(a) = 0 THEN TRUE
    ELSE IF Ord(a[1]) /= Ord(b[1]) THEN Ord(a[1]) < Ord(b[1])
    ELSE StrLess(Tail(a), Tail(b))

-----------------------------------------------------------------------------
(* Exact fractions *)

Abs(x) == IF x < 0 THEN -x ELSE x

RECURSIVE Gcd(_, _)
Gcd(a, b) == IF b = 0 THEN a ELSE Gcd(b, a % b)

\* the fraction n/d in lowest terms (d > 0)
Rat(n, d) == LET g == Gcd(Abs(n), d) IN [n |-> n \div g, d |-> d \div g]

Zero == [n |-> 0, d |-> 1]
RatOfInt(x) == [n |-> x, d |-> 1]
RatLess(a, b) == a.n * b.d < b.n * a.d

RECURSIVE Sum(_)
Sum(xs) == IF Len(xs) = 0 THEN 0 ELSE xs[1] + Sum(Tail(xs))

RECURSIVE SumSq(_)
SumSq(xs) == IF Len(xs) = 0 THEN 0 ELSE xs[1] * xs[1] + SumSq(Tail(xs))

\* statistics.mean
Mean(xs) == Rat(Sum(xs), Len(xs))

\* the square of statistics.pstdev (population variance)
StdevSq_Population(xs) ==
    LET k == Len(xs) IN Rat(k * SumSq(xs) - Sum(xs) * Sum(xs), k * k)

\* the square of statistics.stdev (Bessel-corrected sample variance), Len(xs) > 1
StdevSq(xs) ==
    LET k == Len(xs) IN Rat(k * SumSq(xs) - Sum(xs) * Sum(xs), k * (k - 1))

\* insert x into the ascending sequence xs
RECURSIVE InsertAsc(_, _)
InsertAsc(x, xs) ==
    IF Len(xs) = 0 THEN <<x>>
    ELSE IF x < xs[1] THEN <<x>> \o xs
    ELSE <<xs[1]>> \o InsertAsc(x, Tail(xs))

RECURSIVE SortAsc(_)
SortAsc(xs) == IF Len(xs) = 0 THEN <<>> ELSE InsertAsc(xs[1], SortAsc(Tail(xs)))

\* the middle of the list as it stands, without sorting it
Median_Unsorted(xs) ==
    LET k == Len(xs)
    IN  IF k % 2 = 1 THEN RatOfInt(xs[(k + 1) \div 2])
        ELSE Rat(xs[k \div 2] + xs[k \div 2 + 1], 2)

\* statistics.median
Median(xs) ==
    LET s == SortAsc(xs)
        k == Len(s)
    IN  IF k % 2 = 1 THEN RatOfInt(s[(k + 1) \div 2])
        ELSE Rat(s[k \div 2] + s[k \div 2 + 1], 2)

-----------------------------------------------------------------------------
(* Timestamps.  A timestamp string is one of: the empty string, an ISO-8601  *)
(* instant "2024-01-0<day>T00:00:00<sfx>" with sfx one of "", "Z", "+00:00", *)
(* "+09:00", or a string that is no ISO-8601 instant ("not-a-date").         *)

EmptyTs == [kind |-> "empty", day |-> 0, sfx |-> ""]
JunkTs == [kind |-> "junk", day |-> 0, sfx |-> ""]
Iso(day, sfx) == [kind |-> "iso", day |-> day, sfx |-> sfx]

\* bool(timestamp)
TruthyTs(ts) == ts.kind /= "empty"

\* timestamp.replace('Z', '+00:00')
ReplaceZ(ts) == IF ts.sfx = "Z" THEN [ts EXCEPT !.sfx = "+00:00"] ELSE ts

\* datetime.fromisoformat: ok = FALSE stands for ValueError; wall is the wall
\* clock in hours, aware tells whether a UTC offset (off, in hours) is attached
FromIsoFormat(ts) ==
    IF ts.kind /= "iso" THEN [ok |-> FALSE, wall |-> 0, aware |-> FALSE, off |-> 0]
    ELSE [ok |-> TRUE, wall |-> 24 * ts.day, aware |-> ts.sfx /= "",
          off |-> IF ts.sfx = "+09:00" THEN 9 ELSE 0]

\* a < b on datetimes that are both naive or both aware
DateLess(a, b) ==
    IF a.aware THEN a.wall - a.off < b.wall - b.off ELSE a.wall < b.wall

\* the place of a suffix in string order ("" is a prefix of the others, "+" < "Z")
SfxRank(sfx) ==
    CASE sfx = "" -> 0 [] sfx = "+00:00" -> 1 [] sfx = "+09:00" -> 2 [] sfx = "Z" -> 3

\* a < b on timestamp strings: "" < "2024-..." < "not-a-date"
TsLess(a, b) ==
    LET ka == CASE a.kind = "empty" -> 0 [] a.kind = "iso" -> 1 [] a.kind = "junk" -> 2
        kb == CASE b.kind = "empty" -> 0 [] b.kind = "iso" -> 1 [] b.kind = "junk" -> 2
    IN  \/ ka < kb
        \/ ka = kb /\ a.day < b.day
        \/ ka = kb /\ a.day = b.day /\ SfxRank(a.sfx) < SfxRank(b.sfx)

-----------------------------------------------------------------------------
(* Run records (the content of a data.json, tagged with its directory) *)

\* one entry of a record's "results": task name -> task result
TaskResult(task, accuracy, acc) ==
    [task |-> task, accuracy |-> accuracy, acc |-> acc, is_dict |-> TRUE]

\* an entry of "results" whose value is a bare number instead of a dict
ScalarResult(task) == [task |-> task, accuracy |-> None, acc |-> None, is_dict |-> FALSE]

RunRecord(run_dir, run_id, model_name, timestamp, average_accuracy, results, wandb_history) ==
    [run_dir |-> run_dir, run_id |-> run_id, model_name |-> model_name,
     timestamp |-> timestamp, average_accuracy |-> average_accuracy,
     results |-> results, wandb_history |-> wandb_history]

\* run.get("model", {}).get("name", default)
RunModelName(run, default) == Get(run.model_name, default)
\* run.get("run_id", run.get("_run_dir", "unknown"))
RunId(run) == Get(run.run_id, run.run_dir)
\* run.get("average_accuracy", 0)
RunAccuracy(run) == Get(run.average_accuracy, 0)
\* run.get("timestamp", "")
RunTimestamp(run) == Get(run.timestamp, EmptyTs)
\* a record without results read as reporting one placeholder task
RunResults_Placeholder(run) ==
    LET items == Get(run.results, <<>>)
    IN  IF Len(items) = 0 THEN <<TaskResult(Str_unknown, None, None)>> ELSE items

\* run.get("results", {}).items()
RunResults(run) == Get(run.results, <<>>)
\* run.get("results", {}).keys()
RunTasks(run) == [i \in 1..Len(RunResults(run)) |-> RunResults(run)[i].task]

-----------------------------------------------------------------------------
(* Dicts in insertion order: sequences of entries with a field key *)

KeyIndex(d, k) ==
    IF \E i \in 1..Len(d) : d[i].key = k
    THEN CHOOSE i \in 1..Len(d) : d[i].key = k
    ELSE 0

HasKey(d, k) == KeyIndex(d, k) /= 0

\* defaultdict.__getitem__: the entry is created on first access
GetOrInsert(d, k, default) == IF HasKey(d, k) THEN d ELSE Append(d, default)

InSeq(x, s) == \E i \in 1..Len(s) : s[i] = x

\* the default_factory of model_stats
DefaultModelStat(name) ==
    [key |-> name, runs |-> <<>>, accuracies |-> <<>>, best_run |-> None,
     worst_run |-> None, avg_accuracy |-> Zero, std_accuracy |-> Zero,
     median_accuracy |-> Zero, total_runs |-> 0, task_results |-> <<>>]

\* the default_factory of a model's task_results: an empty list.  Once
\* _calculate_statistics has run the entry is a dict {avg, std, samples}
\* (collapsed = TRUE)
DefaultTaskResults(task) ==
    [key |-> task, collapsed |-> FALSE, values |-> <<>>, avg |-> Zero,
     std |-> Zero, samples |-> 0]

\* the default_factory of task_stats
DefaultTaskStat(task) ==
    [key |-> task, models |-> <<>>, accuracies |-> <<>>, avg_accuracy |-> Zero,
     std_accuracy |-> Zero, best_model |-> None, worst_model |-> None]

-----------------------------------------------------------------------------
(* aggregate_data.  The aggregator's tables are threaded through the fold  *)
(* as st = [model_stats, task_stats, raised]; a raise stops the fold and   *)
(* keeps what was written before it.                                       *)

Snapshot(run) ==
    [run_id |-> RunId(run), accuracy |-> RunAccuracy(run), timestamp |-> RunTimestamp(run)]

\* BeatsBest with >= for >: a later run with the same accuracy takes over
BeatsBest_OrEqual(best_run, avg_accuracy) ==
    best_run = None \/ avg_accuracy >= best_run[1].accuracy

\* lines 106 and 113: the run replaces the current extreme
BeatsBest(best_run, avg_accuracy) ==
    best_run = None \/ avg_accuracy > best_run[1].accuracy

BeatsWorst(worst_run, avg_accuracy) ==
    worst_run = None \/ avg_accuracy < worst_run[1].accuracy

\* lines 99-118: the run is added to its model's statistics
UpdateModelStat(model_stat, run) ==
    [model_stat EXCEPT
        !.runs = Append(@, RunId(run)),
        !.accuracies = Append(@, RunAccuracy(run)),
        !.total_runs = @ + 1,
        !.best_run = IF BeatsBest(@, RunAccuracy(run)) THEN Some(Snapshot(run)) ELSE @,
        !.worst_run = IF BeatsWorst(@, RunAccuracy(run)) THEN Some(Snapshot(run)) ELSE @]

\* line 122: the accuracy read from one task result
TaskAccuracy(task_result) == Get(task_result.accuracy, 0)

\* the task loop with line 126 dropped: the model is appended to the task's
\* models for every run that reports the task
RECURSIVE FoldTasks_AlwaysAppends(_, _, _, _, _)
FoldTasks_AlwaysAppends(st, model_name, run_id, items, k) ==
    IF k > Len(items) THEN st
    ELSE
      LET item == items[k]
          mi == KeyIndex(st.model_stats, model_name)
          tr1 == GetOrInsert(st.model_stats[mi].task_results, item.task,
                             DefaultTaskResults(item.task))
          ti == KeyIndex(tr1, item.task)
      IN  IF ~item.is_dict \/ tr1[ti].collapsed
          THEN [st EXCEPT !.raised = "AttributeError"]
          ELSE
            LET tr2 == [tr1 EXCEPT ![ti].values = Append(@, TaskAccuracy(item))]
                ts1 == GetOrInsert(st.task_stats, item.task, DefaultTaskStat(item.task))
                tj == KeyIndex(ts1, item.task)
                ts2 == [ts1 EXCEPT
                          ![tj].models = Append(@, model_name),
                          ![tj].accuracies =
                              Append(@, [model |-> model_name,
                                         accuracy |-> TaskAccuracy(item),
                                         run_id |-> run_id])]
            IN  FoldTasks_AlwaysAppends(
                    [st EXCEPT !.model_stats[mi].task_results = tr2, !.task_stats = ts2],
                    model_name, run_id, items, k + 1)

\* lines 121-133, from the k-th item of the run's results on
RECURSIVE FoldTasks(_, _, _, _, _)
FoldTasks(st, model_name, run_id, items, k) ==
    IF k > Len(items) THEN st
    ELSE
      LET item == items[k]
          mi == KeyIndex(st.model_stats, model_name)
          tr1 == GetOrInsert(st.model_stats[mi].task_results, item.task,
                             DefaultTaskResults(item.task))
          ti == KeyIndex(tr1, item.task)
      IN  IF ~item.is_dict
          THEN \* line 122: a number has no get
               [st EXCEPT !.raised = "AttributeError"]
          ELSE IF tr1[ti].collapsed
          THEN \* a dict has no append
               [st EXCEPT !.raised = "AttributeError"]
          ELSE
            LET tr2 == [tr1 EXCEPT ![ti].values = Append(@, TaskAccuracy(item))]
                ts1 == GetOrInsert(st.task_stats, item.task, DefaultTaskStat(item.task))
                tj == KeyIndex(ts1, item.task)
                ts2 == [ts1 EXCEPT
                          ![tj].models = IF InSeq(model_name, @) THEN @
                                         ELSE Append(@, model_name),
                          ![tj].accuracies =
                              Append(@, [model |-> model_name,
                                         accuracy |-> TaskAccuracy(item),
                                         run_id |-> run_id])]
            IN  FoldTasks([st EXCEPT !.model_stats[mi].task_results = tr2,
                                     !.task_stats = ts2],
                          model_name, run_id, items, k + 1)

\* lines 95-133: one iteration of the loop over all_runs
FoldRun(st, run) ==
    LET model_name == RunModelName(run, Str_unknown)
        ms1 == GetOrInsert(st.model_stats, model_name, DefaultModelStat(model_name))
        mi == KeyIndex(ms1, model_name)
        ms2 == [ms1 EXCEPT ![mi] = UpdateModelStat(@, run)]
    IN  FoldTasks([st EXCEPT !.model_stats = ms2], model_name, RunId(run),
                  RunResults(run), 1)

\* lines 94-133, from the k-th run on
RECURSIVE FoldRuns(_, _, _)
FoldRuns(st, runs, k) ==
    IF k > Len(runs) \/ st.raised /= "" THEN st
    ELSE FoldRuns(FoldRun(st, runs[k]), runs, k + 1)

-----------------------------------------------------------------------------
(* _calculate_statistics *)

\* lines 154-158: a model's list of task accuracies becomes {avg, std, samples}
CollapseTaskResults(entry) ==
    [entry EXCEPT
        !.collapsed = TRUE,
        !.avg = Mean(entry.values),
        !.std = IF Len(entry.values) > 1 THEN StdevSq(entry.values) ELSE Zero,
        !.samples = Len(entry.values),
        !.values = <<>>]

\* lines 152-158, from the j-th task of the model on; r = [entries, raised].
\* An entry that is already a dict is truthy, and statistics.mean over its
\* keys raises TypeError
RECURSIVE CalcTaskResults(_, _)
CalcTaskResults(r, j) ==
    IF j > Len(r.entries) THEN r
    ELSE IF r.entries[j].collapsed THEN [r EXCEPT !.raised = "TypeError"]
    ELSE CalcTaskResults([r EXCEPT !.entries[j] = CollapseTaskResults(@)], j + 1)

\* lines 142-149: a model's own statistics
ModelSummary(stats) ==
    [stats EXCEPT
        !.avg_accuracy = Mean(stats.accuracies),
        !.median_accuracy = Median(stats.accuracies),
        !.std_accuracy = IF Len(stats.accuracies) > 1 THEN StdevSq(stats.accuracies)
                         ELSE Zero]

\* lines 141-158, from the i-th model on
RECURSIVE CalcModels(_, _)
CalcModels(st, i) ==
    IF i > Len(st.model_stats) \/ st.raised /= "" THEN st
    ELSE IF Len(st.model_stats[i].accuracies) = 0 THEN CalcModels(st, i + 1)
    ELSE
      LET s1 == ModelSummary(st.model_stats[i])
          r == CalcTaskResults([entries |-> s1.task_results, raised |-> ""], 1)
      IN  CalcModels([st EXCEPT !.model_stats[i] = [s1 EXCEPT !.task_results = r.entries],
                                !.raised = r.raised],
                     i + 1)

\* lines 164-166: the task's accuracies grouped by model, in order of first
\* appearance
RECURSIVE GroupByModel(_, _, _)
GroupByModel(groups, triples, k) ==
    IF k > Len(triples) THEN groups
    ELSE
      LET g1 == GetOrInsert(groups, triples[k].model,
                            [key |-> triples[k].model, values |-> <<>>])
          gi == KeyIndex(g1, triples[k].model)
      IN  GroupByModel([g1 EXCEPT ![gi].values = Append(@, triples[k].accuracy)],
                       triples, k + 1)

\* lines 175-178: model -> mean of its accuracies for the task
ModelAvgs(triples) ==
    LET groups == GroupByModel(<<>>, triples, 1)
    IN  [i \in 1..Len(groups) |->
            [name |-> groups[i].key, avg_accuracy |-> Mean(groups[i].values)]]

\* MaxByAvg where a later item with the same key takes over
RECURSIVE MaxByAvg_LastWins(_, _, _)
MaxByAvg_LastWins(best, items, k) ==
    IF k > Len(items) THEN best
    ELSE MaxByAvg_LastWins(IF RatLess(items[k].avg_accuracy, best.avg_accuracy)
                           THEN best ELSE items[k], items, k + 1)

\* max(items, key=...): the first item with the largest key
RECURSIVE MaxByAvg(_, _, _)
MaxByAvg(best, items, k) ==
    IF k > Len(items) THEN best
    ELSE MaxByAvg(IF RatLess(best.avg_accuracy, items[k].avg_accuracy)
                  THEN items[k] ELSE best, items, k + 1)

\* min(items, key=...): the first item with the smallest key
RECURSIVE MinByAvg(_, _, _)
MinByAvg(worst, items, k) ==
    IF k > Len(items) THEN worst
    ELSE MinByAvg(IF RatLess(items[k].avg_accuracy, worst.avg_accuracy)
                  THEN items[k] ELSE worst, items, k + 1)

\* line 181
BestModel(model_avgs) == MaxByAvg(model_avgs[1], model_avgs, 2)
\* line 182
WorstModel(model_avgs) == MinByAvg(model_avgs[1], model_avgs, 2)

\* lines 162-191: one task's statistics
TaskSummary(stats) ==
    IF Len(stats.accuracies) = 0 THEN stats
    ELSE
      LET all_accuracies == [i \in 1..Len(stats.accuracies) |-> stats.accuracies[i].accuracy]
          model_avgs == ModelAvgs(stats.accuracies)
      IN  [stats EXCEPT
              !.avg_accuracy = Mean(all_accuracies),
              !.std_accuracy = IF Len(all_accuracies) > 1 THEN StdevSq(all_accuracies)
                               ELSE @,
              !.best_model = Some(BestModel(model_avgs)),
              !.worst_model = Some(WorstModel(model_avgs))]

\* lines 138-191
CalculateStatistics(st) ==
    LET s1 == CalcModels(st, 1)
    IN  IF s1.raised /= "" THEN s1
        ELSE [s1 EXCEPT !.task_stats =
                  [i \in 1..Len(s1.task_stats) |-> TaskSummary(s1.task_stats[i])]]

\* lines 92-136: aggregate_data on the tables st over the sequence runs
Aggregate(st, runs) ==
    LET s1 == FoldRuns([st EXCEPT !.raised = ""], runs, 1)
    IN  IF s1.raised /= "" THEN s1 ELSE CalculateStatistics(s1)

\* the tables of a new aggregator (lines 42-60), and after clear()
EmptyTables == [model_stats |-> <<>>, task_stats |-> <<>>, raised |-> ""]

-----------------------------------------------------------------------------
(* filter_runs.  The criteria c = [model_filter, task_filter, min_accuracy, *)
(* max_accuracy, start_date, end_date] are optional values (None = <<>>).   *)

Criteria(model_filter, task_filter, min_accuracy, max_accuracy, start_date, end_date) ==
    [model_filter |-> model_filter, task_filter |-> task_filter,
     min_accuracy |-> min_accuracy, max_accuracy |-> max_accuracy,
     start_date |-> start_date, end_date |-> end_date]

NoCriteria == Criteria(None, None, None, None, None, None)

\* bool(start_date): None and "" are falsy
TruthyDate(o) == Len(o) > 0 /\ TruthyTs(o[1])

\* the model test without the two lower() calls
PassesModel_CaseSensitive(run, c) ==
    TruthyStr(c.model_filter) =>
        Contains(RunModelName(run, <<>>), c.model_filter[1])

\* the date test with a run dropped when its timestamp does not parse
PassesDate_DropUnparsed(run, c) ==
    IF ~(TruthyDate(c.start_date) \/ TruthyDate(c.end_date)) THEN TRUE
    ELSE IF ~TruthyTs(RunTimestamp(run)) THEN TRUE
    ELSE FromIsoFormat(ReplaceZ(RunTimestamp(run))).ok

\* lines 220-223
PassesModel(run, c) ==
    TruthyStr(c.model_filter) =>
        Contains(Lower(RunModelName(run, <<>>)), Lower(c.model_filter[1]))

\* lines 226-229
PassesTask(run, c) ==
    TruthyStr(c.task_filter) => InSeq(c.task_filter[1], RunTasks(run))

\* lines 232-236
PassesAccuracy(run, c) ==
    /\ ~(c.min_accuracy /= None /\ RunAccuracy(run) < c.min_accuracy[1])
    /\ ~(c.max_accuracy /= None /\ RunAccuracy(run) > c.max_accuracy[1])

\* lines 244-251 inside the try: what the comparison against one bound does.
\* "raise" is the ValueError of fromisoformat or the TypeError of comparing a
\* naive with an aware datetime; "continue" drops the run; "pass" goes on
BoundOutcome(run_date, bound, is_start) ==
    LET b == FromIsoFormat(bound)
    IN  IF ~b.ok THEN "raise"
        ELSE IF b.aware /= run_date.aware THEN "raise"
        ELSE IF is_start /\ DateLess(run_date, b) THEN "continue"
        ELSE IF ~is_start /\ DateLess(b, run_date) THEN "continue"
        ELSE "pass"

\* lines 239-253: the bare except swallows every raise and the run is kept
PassesDate(run, c) ==
    IF ~(TruthyDate(c.start_date) \/ TruthyDate(c.end_date)) THEN TRUE
    ELSE IF ~TruthyTs(RunTimestamp(run)) THEN TRUE
    ELSE
      LET run_date == FromIsoFormat(ReplaceZ(RunTimestamp(run)))
          s == IF TruthyDate(c.start_date)
               THEN BoundOutcome(run_date, c.start_date[1], TRUE) ELSE "pass"
          e == IF TruthyDate(c.end_date)
               THEN BoundOutcome(run_date, c.end_date[1], FALSE) ELSE "pass"
      IN  IF ~run_date.ok THEN TRUE
          ELSE IF s = "raise" THEN TRUE
          ELSE IF s = "continue" THEN FALSE
          ELSE IF e = "raise" THEN TRUE
          ELSE e /= "continue"

\* lines 218-255: the run reaches filtered_runs.append
Keeps(run, c) ==
    PassesModel(run, c) /\ PassesTask(run, c) /\ PassesAccuracy(run, c) /\ PassesDate(run, c)

\* lines 216-257, from the k-th run on
RECURSIVE FilterFrom(_, _, _)
FilterFrom(runs, c, k) ==
    IF k > Len(runs) THEN <<>>
    ELSE (IF Keeps(runs[k], c) THEN <<runs[k]>> ELSE <<>>) \o FilterFrom(runs, c, k + 1)

\* filter_runs
FilterRuns(runs, c) == FilterFrom(runs, c, 1)

-----------------------------------------------------------------------------
(* sort_runs *)

\* key_func(a) < key_func(b), lines 276-284 (an unknown field sorts by timestamp)
KeyLess(sort_by, a, b) ==
    CASE sort_by = "accuracy" -> RunAccuracy(a) < RunAccuracy(b)
      [] sort_by = "model" -> StrLess(RunModelName(a, <<>>), RunModelName(b, <<>>))
      [] OTHER -> TsLess(RunTimestamp(a), RunTimestamp(b))

Reverse(s) == [i \in 1..Len(s) |-> s[Len(s) + 1 - i]]

\* x goes in front of the first element that is greater than it
RECURSIVE InsertStable(_, _, _)
InsertStable(sort_by, x, s) ==
    IF Len(s) = 0 THEN <<x>>
    ELSE IF KeyLess(sort_by, x, s[1]) THEN <<x>> \o s
    ELSE <<s[1]>> \o InsertStable(sort_by, x, Tail(s))

\* list.sort: stable, ascending; the first k elements of runs, sorted
RECURSIVE StableSort(_, _, _)
StableSort(sort_by, runs, k) ==
    IF k = 0 THEN <<>>
    ELSE InsertStable(sort_by, runs[k], StableSort(sort_by, runs, k - 1))

\* a descending sort obtained by reversing the ascending one
SortRuns_ReversedAfter(runs, sort_by, reverse) ==
    IF reverse
    THEN Reverse(StableSort(sort_by, runs, Len(runs)))
    ELSE StableSort(sort_by, runs, Len(runs))

\* sorted(runs, key=key_func, reverse=reverse), line 286: with reverse the
\* list is reversed, sorted and reversed again, which keeps equal keys in
\* their original order
SortRuns(runs, sort_by, reverse) ==
    IF reverse
    THEN Reverse(StableSort(sort_by, Reverse(runs), Len(runs)))
    ELSE StableSort(sort_by, runs, Len(runs))

-----------------------------------------------------------------------------
(* load_run_data and scan_all_runs.  An entry of the runs directory is      *)
(* [name, is_dir, data, content]: data tells whether data.json is           *)
(* "missing", "malformed" (json.load raises) or "ok" with the given content *)

\* the loader that returns whatever the file holds when there is a file
LoadRunData_KeepsUnparsed(entry) ==
    IF entry.data = "missing" THEN None
    ELSE Some([entry.content EXCEPT !.run_dir = entry.name])

\* lines 62-77: <<>> stands for the None returned.  No data.json: None at
\* line 67; "malformed": json.load raises; "not_object" (a JSON list, number,
\* string or null): the assignment at line 73 raises TypeError; both are
\* caught at line 75
LoadRunData(entry) ==
    IF entry.data = "missing" THEN None
    ELSE IF entry.data = "malformed" THEN None
    ELSE IF entry.data = "not_object" THEN None
    ELSE Some([entry.content EXCEPT !.run_dir = entry.name])

\* the listing in descending order of name
RECURSIVE SortedEntries_Descending(_)
SortedEntries_Descending(entries) ==
    IF entries = {} THEN <<>>
    ELSE LET first == CHOOSE e \in entries :
                          \A o \in entries \ {e} : StrLess(o.name, e.name)
         IN  <<first>> \o SortedEntries_Descending(entries \ {first})

\* sorted(self.runs_dir.iterdir()): ascending by name
RECURSIVE SortedEntries(_)
SortedEntries(entries) ==
    IF entries = {} THEN <<>>
    ELSE LET first == CHOOSE e \in entries :
                          \A o \in entries \ {e} : StrLess(e.name, o.name)
         IN  <<first>> \o SortedEntries(entries \ {first})

\* lines 83-88, from the k-th entry on: what is appended to all_runs
RECURSIVE LoadFrom(_, _)
LoadFrom(listing, k) ==
    IF k > Len(listing) THEN <<>>
    ELSE (IF listing[k].is_dir /\ LoadRunData(listing[k]) /= None
          THEN LoadRunData(listing[k]) ELSE <<>>) \o LoadFrom(listing, k + 1)

\* lines 79-90: the new value of all_runs
ScanAllRuns(runs, dir) == runs \o LoadFrom(SortedEntries(dir.entries), 1)

-----------------------------------------------------------------------------
(* Presentation: round(x, 4), on fractions of hundredths *)

\* a / b rounded to the nearest integer, ties to even (b > 0)
RoundDiv(a, b) ==
    LET q == a \div b
        r == a % b
    IN  IF 2 * r < b THEN q
        ELSE IF 2 * r > b THEN q + 1
        ELSE IF q % 2 = 0 THEN q ELSE q + 1

\* round(x, 4): a whole number of ten-thousandths, as a fraction of hundredths
Round4(x) == Rat(RoundDiv(x.n * 100, x.d), 100)

\* the largest k in lo..hi with (2k - 1)^2 <= f, or lo
RECURSIVE RootSearch(_, _, _)
RootSearch(f, lo, hi) ==
    IF lo >= hi THEN lo
    ELSE LET mid == (lo + hi + 1) \div 2
         IN  IF (2 * mid - 1) * (2 * mid - 1) <= f
             THEN RootSearch(f, mid, hi) ELSE RootSearch(f, lo, mid - 1)

\* round(s, 4) of the standard deviation s whose square is v
Round4Sqrt(v) ==
    LET f == 40000 * (v.n \div v.d) + (40000 * (v.n % v.d)) \div v.d
    IN  Rat(RootSearch(f, 0, 16384), 100)

-----------------------------------------------------------------------------
(* generate_metadata, export_csv, print_summary *)

\* lines 302-310
ModelView(stats) ==
    [key |-> stats.key,
     total_runs |-> stats.total_runs,
     avg_accuracy |-> Round4(stats.avg_accuracy),
     std_accuracy |-> Round4Sqrt(stats.std_accuracy),
     median_accuracy |-> Round4(stats.median_accuracy),
     best_run |-> stats.best_run,
     worst_run |-> stats.worst_run,
     task_performance |-> stats.task_results]

\* lines 314-321
TaskView(stats) ==
    [key |-> stats.key,
     total_runs |-> Len(stats.accuracies),
     unique_models |-> Len(stats.models),
     avg_accuracy |-> Round4(stats.avg_accuracy),
     std_accuracy |-> Round4Sqrt(stats.std_accuracy),
     best_model |-> stats.best_model,
     worst_model |-> stats.worst_model]

\* bool(run.get("wandb_history"))
RunHistory(run) == Get(run.wandb_history, <<>>)

\* lines 336-339 and 372-375: the first entry whose name contains run_id, 0 for none
RECURSIVE MatchingEntry(_, _, _)
MatchingEntry(history, run_id, k) ==
    IF k > Len(history) THEN 0
    ELSE IF TruthyStr(history[k].name) /\ Contains(history[k].name[1], run_id) THEN k
    ELSE MatchingEntry(history, run_id, k + 1)

\* lines 325-339: wandb_url is <<>> for null, else <<url>>
RunSummary(run) ==
    LET k == MatchingEntry(RunHistory(run), RunId(run), 1)
    IN  [run_id |-> RunId(run),
         model |-> RunModelName(run, Str_unknown),
         timestamp |-> RunTimestamp(run),
         average_accuracy |-> Round4(RatOfInt(RunAccuracy(run))),
         tasks |-> RunTasks(run),
         wandb_url |-> IF k = 0 THEN None ELSE RunHistory(run)[k].url]

\* lines 290-341: the document written (generated_at left out)
GenerateMetadata(runs, ms, ts) ==
    [total_runs |-> Len(runs),
     total_models |-> Len(ms),
     total_tasks |-> Len(ts),
     models |-> [i \in 1..Len(ms) |-> ModelView(ms[i])],
     tasks |-> [i \in 1..Len(ts) |-> TaskView(ts[i])],
     runs |-> [i \in 1..Len(runs) |-> RunSummary(runs[i])]]

\* ", ".join(tasks)
RECURSIVE Join(_)
Join(tasks) ==
    IF Len(tasks) = 0 THEN <<>>
    ELSE IF Len(tasks) = 1 THEN tasks[1]
    ELSE tasks[1] \o <<",", " ">> \o Join(Tail(tasks))

\* lines 355-358
CsvHeader ==
    <<"Run ID", "Model", "Timestamp", "Average Accuracy", "Tasks", "Task Count", "W&B URL">>

\* lines 362-380: wandb_url is "" when no entry matches
CsvRow(run) ==
    LET k == MatchingEntry(RunHistory(run), RunId(run), 1)
    IN  [run_id |-> RunId(run),
         model |-> RunModelName(run, Str_unknown),
         timestamp |-> RunTimestamp(run),
         average_accuracy |-> Round4(RatOfInt(RunAccuracy(run))),
         tasks |-> Join(RunTasks(run)),
         task_count |-> Len(RunTasks(run)),
         wandb_url |-> IF k = 0 THEN "" ELSE Get(RunHistory(run)[k].url, "")]

\* the rows written last record first
ExportCsv_Reversed(runs) ==
    [header |-> CsvHeader, rows |-> [i \in 1..Len(runs) |-> CsvRow(runs[Len(runs) + 1 - i])]]

\* lines 351-380: the file written
ExportCsv(runs) == [header |-> CsvHeader, rows |-> [i \in 1..Len(runs) |-> CsvRow(runs[i])]]

TopModels == 10
ModelWidth == 30
BestModelWidth == 20

\* s[:k]
Prefix(s, k) == SubSeq(s, 1, IF Len(s) < k THEN Len(s) ELSE k)

\* x goes in front of the first entry with a smaller average
RECURSIVE InsertByAvgDesc(_, _)
InsertByAvgDesc(x, s) ==
    IF Len(s) = 0 THEN <<x>>
    ELSE IF RatLess(s[1].avg_accuracy, x.avg_accuracy) THEN <<x>> \o s
    ELSE <<s[1]>> \o InsertByAvgDesc(x, Tail(s))

\* sorted(items, key=avg_accuracy, reverse=True) of the first k entries
\* (lines 401-405 and 423-427): descending, equal keys in their first order
RECURSIVE SortedByAvgDesc(_, _)
SortedByAvgDesc(entries, k) ==
    IF k = 0 THEN <<>>
    ELSE InsertByAvgDesc(entries[k], SortedByAvgDesc(entries, k - 1))

\* lines 407-409: one row of the model table
ModelRow(stats) ==
    [model |-> Prefix(stats.key, ModelWidth), runs |-> stats.total_runs,
     avg |-> Round4(stats.avg_accuracy), std |-> Round4Sqrt(stats.std_accuracy)]

\* lines 429-434: one row of the task table
TaskRow(stats) ==
    [task |-> Prefix(stats.key, ModelWidth), models |-> Len(stats.models),
     avg |-> Round4(stats.avg_accuracy),
     best_model |-> IF stats.best_model = None THEN <<"N", "/", "A">>
                    ELSE Prefix(stats.best_model[1].name, BestModelWidth)]

\* lines 384-436: what is printed
PrintSummary(runs, ms, ts) ==
    LET sorted_models == SortedByAvgDesc(ms, Len(ms))
        sorted_tasks == SortedByAvgDesc(ts, Len(ts))
        shown == Prefix(sorted_models, TopModels)
    IN  [total_runs |-> Len(runs), total_models |-> Len(ms), total_tasks |-> Len(ts),
         models |-> [i \in 1..Len(shown) |-> ModelRow(shown[i])],
         more |-> IF Len(sorted_models) > TopModels THEN Len(sorted_models) - TopModels ELSE 0,
         tasks |-> [i \in 1..Len(sorted_tasks) |-> TaskRow(sorted_tasks[i])]]

-----------------------------------------------------------------------------
(* main: the parsed arguments and the steps of the pipeline *)

Args(model_filter, task_filter, min_accuracy, max_accuracy, start_date, end_date, sort_by, ascending, csv, summary_flag) ==
    [model_filter |-> model_filter, task_filter |-> task_filter,
     min_accuracy |-> min_accuracy, max_accuracy |-> max_accuracy,
     start_date |-> start_date, end_date |-> end_date,
     sort_by |-> sort_by, ascending |-> ascending, csv |-> csv, summary |-> summary_flag]

\* the defaults of the parser, lines 440-503
DefaultArgs == Args(None, None, None, None, None, None, "timestamp", FALSE, FALSE, FALSE)

\* lines 518-519: any([...]) over the six filter arguments
AnyFilter(a) ==
    \/ TruthyStr(a.model_filter) \/ TruthyStr(a.task_filter)
    \/ TruthyNum(a.min_accuracy) \/ TruthyNum(a.max_accuracy)
    \/ TruthyDate(a.start_date) \/ TruthyDate(a.end_date)

\* the tables left as they are
Clear_Skipped(tables) == tables

\* lines 532-533: model_stats.clear() and task_stats.clear()
Clear(tables) == EmptyTables

\* the pass over the filtered runs run on top of the tables as they are
Reaggregate_OntoOld(tables, runs) == Aggregate(tables, runs)

\* lines 520-534: the tables after the filtered runs replace all_runs
Reaggregate(tables, runs) == Aggregate(Clear(tables), runs)

Tables == [model_stats |-> model_stats, task_stats |-> task_stats, raised |-> ""]

-----------------------------------------------------------------------------
(* The operations as steps.  Each Do... is one whole call on the aggregator; *)
(* the caller's position (pc, calls) is set by the action that uses it.      *)

\* aggregator.scan_all_runs(); iterdir raises when the directory is missing
DoScan ==
    /\ IF runs_dir.exists
       THEN all_runs' = ScanAllRuns(all_runs, runs_dir) /\ raised' = ""
       ELSE all_runs' = all_runs /\ raised' = "FileNotFoundError"
    /\ last_op' = "scan_all_runs"
    /\ UNCHANGED <<runs_dir, model_stats, task_stats, args, filtered_runs, sorted_runs,
                   metadata, csv_rows, summary, passes>>

\* aggregator.aggregate_data()
DoAggregate ==
    /\ LET r == Aggregate(Tables, all_runs)
       IN  /\ model_stats' = r.model_stats
           /\ task_stats' = r.task_stats
           /\ raised' = r.raised
    /\ passes' = passes + 1
    /\ last_op' = "aggregate_data"
    /\ UNCHANGED <<runs_dir, all_runs, args, filtered_runs, sorted_runs, metadata,
                   csv_rows, summary>>

\* a filter_runs that narrows self.all_runs itself to the runs it returns
DoFilter_InPlace(c) ==
    /\ filtered_runs' = FilterRuns(all_runs, c)
    /\ all_runs' = filtered_runs'
    /\ args' = [args EXCEPT !.model_filter = c.model_filter, !.task_filter = c.task_filter,
                            !.min_accuracy = c.min_accuracy, !.max_accuracy = c.max_accuracy,
                            !.start_date = c.start_date, !.end_date = c.end_date]
    /\ last_op' = "filter_runs"
    /\ raised' = ""
    /\ UNCHANGED <<runs_dir, model_stats, task_stats, sorted_runs, metadata,
                   csv_rows, summary, passes>>

\* filtered_runs = aggregator.filter_runs(...) with the criteria c
DoFilter(c) ==
    /\ filtered_runs' = FilterRuns(all_runs, c)
    /\ args' = [args EXCEPT !.model_filter = c.model_filter, !.task_filter = c.task_filter,
                            !.min_accuracy = c.min_accuracy, !.max_accuracy = c.max_accuracy,
                            !.start_date = c.start_date, !.end_date = c.end_date]
    /\ last_op' = "filter_runs"
    /\ raised' = ""
    /\ UNCHANGED <<runs_dir, all_runs, model_stats, task_stats, sorted_runs, metadata,
                   csv_rows, summary, passes>>

\* sorted_runs = aggregator.sort_runs(aggregator.all_runs, sort_by, reverse)
DoSort(sort_by, reverse) ==
    /\ sorted_runs' = SortRuns(all_runs, sort_by, reverse)
    /\ args' = [args EXCEPT !.sort_by = sort_by, !.ascending = ~reverse]
    /\ last_op' = "sort_runs"
    /\ raised' = ""
    /\ UNCHANGED <<runs_dir, all_runs, model_stats, task_stats, filtered_runs, metadata,
                   csv_rows, summary, passes>>

\* the filtered runs adopted with the tables left as the first pass built them
DoAdoptFiltered_KeepsTables(runs) ==
    /\ all_runs' = runs
    /\ model_stats' = model_stats
    /\ task_stats' = task_stats
    /\ raised' = ""
    /\ passes' = 1
    /\ last_op' = "filter_runs"

\* lines 531-534: all_runs = filtered_runs, clear, clear, aggregate_data
DoAdoptFiltered(runs) ==
    /\ all_runs' = runs
    /\ LET r == Reaggregate(Tables, runs)
       IN  /\ model_stats' = r.model_stats
           /\ task_stats' = r.task_stats
           /\ raised' = r.raised
    /\ passes' = 1
    /\ last_op' = "aggregate_data"

-----------------------------------------------------------------------------
(* Calls on one aggregator in any order (pc = "api") *)

MaxOps == 4

ScanCall ==
    /\ pc = "api" /\ calls < MaxOps
    /\ DoScan
    /\ calls' = calls + 1 /\ pc' = pc
    /\ UNCHANGED config_vars

AggregateCall ==
    /\ pc = "api" /\ calls < MaxOps
    /\ DoAggregate
    /\ calls' = calls + 1 /\ pc' = pc
    /\ UNCHANGED config_vars

FilterCall(c) ==
    /\ pc = "api" /\ calls < MaxOps
    /\ DoFilter(c)
    /\ calls' = calls + 1 /\ pc' = pc
    /\ UNCHANGED config_vars

SortCall(sort_by, reverse) ==
    /\ pc = "api" /\ calls < MaxOps
    /\ DoSort(sort_by, reverse)
    /\ calls' = calls + 1 /\ pc' = pc
    /\ UNCHANGED config_vars

\* what main does with the result of filter_runs
AdoptFilteredCall ==
    /\ pc = "api" /\ calls < MaxOps
    /\ last_op = "filter_runs"
    /\ DoAdoptFiltered(filtered_runs)
    /\ calls' = calls + 1 /\ pc' = pc
    /\ UNCHANGED <<runs_dir, args, filtered_runs, sorted_runs, metadata, csv_rows, summary>>
    /\ UNCHANGED config_vars

-----------------------------------------------------------------------------
(* main, lines 510-554, one step per statement; an exception ends the run *)

\* line 514
MainScan ==
    /\ pc = "scan"
    /\ DoScan
    /\ pc' = IF raised' = "" THEN "aggregate" ELSE "aborted"
    /\ UNCHANGED calls
    /\ UNCHANGED config_vars

\* the aggregation step of a main that goes on after an exception
MainAggregate_IgnoresError ==
    /\ pc = "aggregate"
    /\ DoAggregate
    /\ pc' = "filter"
    /\ UNCHANGED calls
    /\ UNCHANGED config_vars

\* line 515
MainAggregate ==
    /\ pc = "aggregate"
    /\ DoAggregate
    /\ pc' = IF raised' = "" THEN "filter" ELSE "aborted"
    /\ UNCHANGED calls
    /\ UNCHANGED config_vars

\* lines 518-534
MainFilter ==
    /\ pc = "filter"
    /\ IF AnyFilter(args)
       THEN /\ filtered_runs' = FilterRuns(all_runs, args)
            /\ DoAdoptFiltered(filtered_runs')
       ELSE /\ UNCHANGED <<all_runs, model_stats, task_stats, filtered_runs, raised, passes,
                           last_op>>
    /\ pc' = IF raised' = "" THEN "sort" ELSE "aborted"
    /\ UNCHANGED <<runs_dir, args, sorted_runs, metadata, csv_rows, summary, calls>>
    /\ UNCHANGED config_vars

\* lines 537-541
MainSort ==
    /\ pc = "sort"
    /\ all_runs' = SortRuns(all_runs, args.sort_by, ~args.ascending)
    /\ last_op' = "sort_runs"
    /\ pc' = "metadata"
    /\ UNCHANGED <<runs_dir, model_stats, task_stats, args, filtered_runs, sorted_runs,
                   metadata, csv_rows, summary, raised, passes, calls>>
    /\ UNCHANGED config_vars

\* lines 544-545
MainMetadata ==
    /\ pc = "metadata"
    /\ metadata' = Some(GenerateMetadata(all_runs, model_stats, task_stats))
    /\ last_op' = "generate_metadata"
    /\ pc' = "csv"
    /\ UNCHANGED <<runs_dir, all_runs, model_stats, task_stats, args, filtered_runs,
                   sorted_runs, csv_rows, summary, raised, passes, calls>>
    /\ UNCHANGED config_vars

\* lines 548-550
MainCsv ==
    /\ pc = "csv"
    /\ IF args.csv
       THEN csv_rows' = Some(ExportCsv(all_runs)) /\ last_op' = "export_csv"
       ELSE UNCHANGED <<csv_rows, last_op>>
    /\ pc' = "summary"
    /\ UNCHANGED <<runs_dir, all_runs, model_stats, task_stats, args, filtered_runs,
                   sorted_runs, metadata, summary, raised, passes, calls>>
    /\ UNCHANGED config_vars

\* lines 553-554
MainSummary ==
    /\ pc = "summary"
    /\ IF args.summary
       THEN summary' = Some(PrintSummary(all_runs, model_stats, task_stats))
            /\ last_op' = "print_summary"
       ELSE UNCHANGED <<summary, last_op>>
    /\ pc' = "done"
    /\ UNCHANGED <<runs_dir, all_runs, model_stats, task_stats, args, filtered_runs,
                   sorted_runs, metadata, csv_rows, raised, passes, calls>>
    /\ UNCHANGED config_vars

-----------------------------------------------------------------------------
(* Inputs: names, data.json contents and runs directories *)

M_gpt == <<"G", "p", "t">>
M_lm == <<"l", "m">>
F_gp == <<"g", "p">>
F_GP == <<"G", "P">>
T_qa == <<"q", "a">>
T_mc == <<"m", "c">>

\* the name of the i-th run directory: "r1", "r2", ...
DirName(i) ==
    <<"r", CASE i = 1 -> "1" [] i = 2 -> "2" [] i = 3 -> "3" [] i = 4 -> "4" [] OTHER -> "5">>

\* a data.json without run_id and wandb_history
Content(model_name, average_accuracy, timestamp, results) ==
    RunRecord(<<>>, None, model_name, timestamp, average_accuracy, results, None)

\* results with the one task qa
OnlyQa(accuracy) == Some(<<TaskResult(T_qa, Some(accuracy), None)>>)

\* the directories with up to n run directories r1..rk, each holding a
\* readable data.json drawn from corpus
DirsOf(corpus, n) ==
    UNION { { [exists |-> TRUE,
               entries |-> { [name |-> DirName(i), is_dir |-> TRUE, data |-> "ok",
                              content |-> f[i]] : i \in 1..k }] :
              f \in [1..k -> corpus] } : k \in 0..n }

MissingDir == [exists |-> FALSE, entries |-> {}]

\* the state of a new aggregator in front of the directory dir
Constructed(dir) ==
    /\ runs_dir = dir
    /\ all_runs = <<>>
    /\ model_stats = <<>>
    /\ task_stats = <<>>
    /\ args = DefaultArgs
    /\ filtered_runs = <<>>
    /\ sorted_runs = <<>>
    /\ metadata = None
    /\ csv_rows = None
    /\ summary = None
    /\ last_op = "__init__"
    /\ raised = ""
    /\ passes = 0
    /\ calls = 0
    /\ ConfigUnused

\* the state of an aggregator that has scanned the directory dir once
Scanned(dir) ==
    /\ runs_dir = dir
    /\ all_runs = ScanAllRuns(<<>>, dir)
    /\ model_stats = <<>>
    /\ task_stats = <<>>
    /\ args = DefaultArgs
    /\ filtered_runs = <<>>
    /\ sorted_runs = <<>>
    /\ metadata = None
    /\ csv_rows = None
    /\ summary = None
    /\ last_op = "scan_all_runs"
    /\ raised = ""
    /\ passes = 0
    /\ calls = 0
    /\ ConfigUnused

\* one call of filter_runs on the scanned runs
FilterOnce(c) ==
    /\ pc = "call"
    /\ DoFilter(c)
    /\ pc' = "returned"
    /\ UNCHANGED calls
    /\ UNCHANGED config_vars

\* one call of sort_runs on the scanned runs
SortOnce(sort_by, reverse) ==
    /\ pc = "call"
    /\ DoSort(sort_by, reverse)
    /\ pc' = "returned"
    /\ UNCHANGED calls
    /\ UNCHANGED config_vars

-----------------------------------------------------------------------------
(* Spec: one aggregator, its operations called in any order *)

MaxDirsApi == 2

ApiCorpus ==
    { Content(Some(m), Some(50), Some(Iso(1, "")), r) :
        m \in {M_gpt, M_lm}, r \in {None, OnlyQa(50)} }

ApiCriteria ==
    { NoCriteria,
      Criteria(Some(F_gp), None, None, None, None, None),
      Criteria(None, Some(T_qa), None, None, None, None) }

Init ==
    /\ \E dir \in DirsOf(ApiCorpus, MaxDirsApi) \cup {MissingDir} : Constructed(dir)
    /\ pc = "api"

Next ==
    \/ ScanCall
    \/ AggregateCall
    \/ \E c \in ApiCriteria : FilterCall(c)
    \/ \E sort_by \in {"timestamp", "model"} : SortCall(sort_by, TRUE)
    \/ AdoptFilteredCall

Spec == Init /\ [][Next]_vars

\* C1: aggregate_data is idempotent on one aggregator: a second call right
\* after a completed first call raises nothing and leaves model_stats and
\* task_stats as the first call left them.
C1_AggregateIdempotent ==
    [][(/\ last_op = "aggregate_data" /\ raised = "" /\ passes = 1
        /\ last_op' = "aggregate_data" /\ passes' = 2)
       => (/\ raised' = ""
           /\ model_stats' = model_stats
           /\ task_stats' = task_stats)]_vars

RECURSIVE SumTotalRuns(_)
SumTotalRuns(ms) == IF Len(ms) = 0 THEN 0 ELSE ms[1].total_runs + SumTotalRuns(Tail(ms))

\* C3: count invariant: in every state each model has len(runs) =
\* len(accuracies) = total_runs, and when an aggregation pass has just
\* completed the total_runs of all models add up to len(all_runs).
C3_CountInvariant ==
    /\ \A i \in 1..Len(model_stats) :
           /\ Len(model_stats[i].runs) = model_stats[i].total_runs
           /\ Len(model_stats[i].accuracies) = model_stats[i].total_runs
    /\ (last_op = "aggregate_data" /\ raised = "")
           => SumTotalRuns(model_stats) = Len(all_runs)

-----------------------------------------------------------------------------
(* SpecAgg: a new aggregator scans a directory and aggregates once          *)
(* (main, lines 511-515)                                                    *)

MaxDirsAgg == 3

AggCorpus ==
    { Content(Some(m), Some(a), Some(Iso(1, "")), r) :
        m \in {M_gpt, M_lm}, a \in {0, 50}, r \in {None} } \cup
    { Content(Some(m), Some(a), Some(Iso(1, "")), OnlyQa(a)) :
        m \in {M_gpt, M_lm}, a \in {0, 50, 100} }

InitAgg ==
    /\ \E dir \in DirsOf(AggCorpus, MaxDirsAgg) : Constructed(dir)
    /\ pc = "scan"

NextAgg ==
    \/ MainScan
    \/ MainAggregate

SpecAgg == InitAgg /\ [][NextAgg]_vars

\* a first aggregation pass from empty tables has just completed
FirstPassDone == last_op = "aggregate_data" /\ passes = 1 /\ raised = ""

\* the positions in all_runs of the runs of the model name
RunsOfModel(name) ==
    { i \in 1..Len(all_runs) : RunModelName(all_runs[i], Str_unknown) = name }

\* the least element of a non-empty set of numbers
Least(S) == CHOOSE x \in S : \A y \in S : x <= y

\* the first position in idx whose run has the largest, or the smallest,
\* average_accuracy among the runs at idx
FirstMax(idx) ==
    Least({ i \in idx : \A j \in idx : RunAccuracy(all_runs[j]) <= RunAccuracy(all_runs[i]) })
FirstMin(idx) ==
    Least({ i \in idx : \A j \in idx : RunAccuracy(all_runs[j]) >= RunAccuracy(all_runs[i]) })

\* C9: after aggregate_data from empty state, best_run of every model is the
\* snapshot {run_id, accuracy, timestamp} of the first record, in all_runs
\* order, that has the model's maximum average_accuracy, and worst_run that of
\* the first record with the minimum: a later record with the same value does
\* not replace it.
C9_FirstExtremeWins ==
    FirstPassDone =>
        \A k \in 1..Len(model_stats) :
            LET idx == RunsOfModel(model_stats[k].key)
            IN  /\ idx /= {}
                /\ model_stats[k].best_run = Some(Snapshot(all_runs[FirstMax(idx)]))
                /\ model_stats[k].worst_run = Some(Snapshot(all_runs[FirstMin(idx)]))

\* C9 witness: a model has two runs with its maximum accuracy, and best_run
\* names the earlier one.
C9_Witness ==
    /\ FirstPassDone
    /\ \E k \in 1..Len(model_stats) :
           \E i, j \in RunsOfModel(model_stats[k].key) :
               /\ i < j
               /\ RunAccuracy(all_runs[i]) = RunAccuracy(all_runs[j])
               /\ FirstMax(RunsOfModel(model_stats[k].key)) = i
               /\ model_stats[k].best_run[1].run_id = RunId(all_runs[i])
               /\ RunId(all_runs[i]) /= RunId(all_runs[j])

\* the run at position i reports the task
Reports(i, task) == InSeq(task, RunTasks(all_runs[i]))

\* the accuracy the run at position i reports for the task
ReportedAccuracy(i, task) ==
    LET items == RunResults(all_runs[i])
    IN  TaskAccuracy(items[CHOOSE k \in 1..Len(items) : items[k].task = task])

\* the positions of the runs of the model name that report the task
ReportsOf(name, task) == { i \in RunsOfModel(name) : Reports(i, task) }

RECURSIVE SumOver(_, _)
SumOver(idx, task) ==
    IF idx = {} THEN 0
    ELSE LET i == Least(idx) IN ReportedAccuracy(i, task) + SumOver(idx \ {i}, task)

\* the mean of the accuracies the runs of the model report for the task
MeanOfModel(name, task) ==
    Rat(SumOver(ReportsOf(name, task), task), Cardinality(ReportsOf(name, task)))

\* the models with at least one run reporting the task
Reporters(task) ==
    { RunModelName(all_runs[i], Str_unknown) : i \in { j \in 1..Len(all_runs) : Reports(j, task) } }

\* m comes before o: it reported the task first in run order
ReportedFirst(m, o, task) == Least(ReportsOf(m, task)) < Least(ReportsOf(o, task))

\* C10: after aggregate_data from empty state, for every task with a
\* contributing run best_model is the reporting model with the largest mean of
\* its accuracies for the task and worst_model the one with the smallest
\* mean, each with that mean as avg_accuracy; among models with the same
\* extreme mean the one that reported the task first in run order is chosen.
C10_BestWorstModelByMean ==
    FirstPassDone =>
        \A k \in 1..Len(task_stats) :
            LET task == task_stats[k].key
                best == task_stats[k].best_model
                worst == task_stats[k].worst_model
            IN  /\ Reporters(task) /= {}
                /\ best /= None /\ worst /= None
                /\ best[1].name \in Reporters(task)
                /\ worst[1].name \in Reporters(task)
                /\ best[1].avg_accuracy = MeanOfModel(best[1].name, task)
                /\ worst[1].avg_accuracy = MeanOfModel(worst[1].name, task)
                /\ \A o \in Reporters(task) \ {best[1].name} :
                       \/ RatLess(MeanOfModel(o, task), best[1].avg_accuracy)
                       \/ /\ MeanOfModel(o, task) = best[1].avg_accuracy
                          /\ ReportedFirst(best[1].name, o, task)
                /\ \A o \in Reporters(task) \ {worst[1].name} :
                       \/ RatLess(worst[1].avg_accuracy, MeanOfModel(o, task))
                       \/ /\ MeanOfModel(o, task) = worst[1].avg_accuracy
                          /\ ReportedFirst(worst[1].name, o, task)

\* C10 witness: two models have the same mean for a task, the one that
\* reported first is best_model, and a single run of the other model is above
\* that mean.
C10_Witness ==
    /\ FirstPassDone
    /\ \E k \in 1..Len(task_stats) :
           LET task == task_stats[k].key
               best == task_stats[k].best_model[1]
           IN  \E o \in Reporters(task) \ {best.name} :
                   /\ MeanOfModel(o, task) = best.avg_accuracy
                   /\ ReportedFirst(best.name, o, task)
                   /\ \E i \in ReportsOf(o, task) :
                          RatLess(best.avg_accuracy, RatOfInt(ReportedAccuracy(i, task)))

-----------------------------------------------------------------------------
(* SpecFilter: filter_runs called once on scanned runs, with model, task    *)
(* and accuracy criteria (lines 193-236, 255-257)                           *)

MaxDirsFilter == 3

FilterCorpus ==
    { Content(Some(m), Some(a), Some(Iso(1, "")), None) :
        m \in {M_gpt, M_lm}, a \in {0, 50} } \cup
    { Content(Some(m), Some(a), Some(Iso(1, "")), OnlyQa(a)) :
        m \in {M_gpt, M_lm}, a \in {0, 50} }

FilterCriteria ==
    { Criteria(mf, tf, lo, hi, None, None) :
        mf \in {None, Some(F_GP)},
        tf \in {None, Some(<<>>), Some(T_qa), Some(T_mc)},
        lo \in {None, Some(0), Some(50)},
        hi \in {None, Some(0)} }

InitFilter ==
    /\ \E dir \in DirsOf(FilterCorpus, MaxDirsFilter) : Scanned(dir)
    /\ pc = "call"

NextFilter == \E c \in FilterCriteria : FilterOnce(c)

SpecFilter == InitFilter /\ [][NextFilter]_vars

\* a string criterion is applied: it is not None and, unless empty_applies,
\* not the empty string
Applied(criterion, empty_applies) ==
    criterion /= None /\ (empty_applies \/ criterion[1] /= <<>>)

\* the model-name, task and accuracy conditions of the criteria in args
SatisfiesAll(run, empty_applies) ==
    /\ Applied(args.model_filter, empty_applies) =>
           Contains(Lower(RunModelName(run, <<>>)), Lower(args.model_filter[1]))
    /\ Applied(args.task_filter, empty_applies) =>
           \E k \in 1..Len(RunResults(run)) : RunResults(run)[k].task = args.task_filter[1]
    /\ args.min_accuracy /= None => RunAccuracy(run) >= args.min_accuracy[1]
    /\ args.max_accuracy /= None => RunAccuracy(run) <= args.max_accuracy[1]

SatisfiesSupplied(run) == SatisfiesAll(run, TRUE)
SatisfiesNonEmpty(run) == SatisfiesAll(run, FALSE)

\* C4: filter_runs returns, in all_runs order, exactly the records that
\* satisfy every supplied criterion: case-insensitive substring match of the
\* model name, the task name being a key of results, and inclusive accuracy
\* bounds; a criterion is supplied when it is not None.
C4_FilterIsConjunction ==
    (last_op = "filter_runs" /\ pc = "returned") =>
        /\ raised = ""
        /\ filtered_runs = SelectSeq(all_runs, SatisfiesSupplied)

\* C4 as the code has it: the same, a model or task criterion that is the
\* empty string counting as not supplied.
C4_FilterIsConjunctionOfNonEmpty ==
    (last_op = "filter_runs" /\ pc = "returned") =>
        /\ raised = ""
        /\ filtered_runs = SelectSeq(all_runs, SatisfiesNonEmpty)

\* C4 witness: a model filter in another case and an accuracy bound are both
\* supplied; two runs pass both, one on the bound itself, and a run between
\* them in all_runs is dropped.
C4_Witness ==
    /\ last_op = "filter_runs" /\ pc = "returned"
    /\ args.model_filter = Some(F_GP) /\ args.min_accuracy = Some(50)
    /\ Len(all_runs) = 3 /\ Len(filtered_runs) = 2
    /\ filtered_runs = <<all_runs[1], all_runs[3]>>
    /\ RunAccuracy(all_runs[1]) = 50

-----------------------------------------------------------------------------
(* SpecDate: filter_runs called once on scanned runs, with date criteria    *)
(* and an accuracy bound (lines 193-257)                                    *)

MaxDirsDate == 2

DateCorpus ==
    { Content(Some(M_gpt), Some(a), ts, None) :
        a \in {0, 50},
        ts \in {None, Some(EmptyTs), Some(JunkTs), Some(Iso(1, "")), Some(Iso(3, "")),
                Some(Iso(1, "Z")), Some(Iso(3, "+09:00"))} }

\* a date given to filter_runs: nothing, "", a naive or an aware ISO-8601
\* instant, or a string that is none
DateArgs == {None, Some(EmptyTs), Some(Iso(2, "")), Some(Iso(2, "+00:00")), Some(JunkTs)}

DateCriteria ==
    { Criteria(None, None, lo, None, sd, ed) :
        lo \in {None, Some(50)}, sd \in DateArgs, ed \in DateArgs }

InitDate ==
    /\ \E dir \in DirsOf(DateCorpus, MaxDirsDate) : Scanned(dir)
    /\ pc = "call"

NextDate == \E c \in DateCriteria : FilterOnce(c)

SpecDate == InitDate /\ [][NextDate]_vars

FilterReturned == last_op = "filter_runs" /\ pc = "returned"

\* the timestamp of the record parses as ISO-8601
Parses(ts) == ts /= None /\ ts[1].kind = "iso"

\* hours since 2024-01-00T00:00 on the wall clock of the instant, and in UTC
WallHours(ts) == 24 * ts.day
UtcHours(ts) == 24 * ts.day - (IF ts.sfx = "+09:00" THEN 9 ELSE 0)

\* instant a is strictly before instant b, on the wall clock and in UTC
StrictlyBefore(a, b) == WallHours(a) < WallHours(b) /\ UtcHours(a) < UtcHours(b)

\* C6: after filter_runs with start_date and/or end_date that are ISO-8601
\* instants, no returned record with a parseable timestamp (with or without
\* a trailing Z or UTC offset) is dated strictly before start_date or
\* strictly after end_date.
C6_DateBoundInclusive ==
    FilterReturned =>
        \A i \in 1..Len(filtered_runs) :
            LET ts == filtered_runs[i].timestamp
            IN  Parses(ts) =>
                    /\ Parses(args.start_date) => ~StrictlyBefore(ts[1], args.start_date[1])
                    /\ Parses(args.end_date) => ~StrictlyBefore(args.end_date[1], ts[1])

\* the record passes the criteria other than the dates
PassesOthers(run) ==
    /\ args.min_accuracy /= None => RunAccuracy(run) >= args.min_accuracy[1]
    /\ args.max_accuracy /= None => RunAccuracy(run) <= args.max_accuracy[1]
    /\ TruthyStr(args.model_filter) =>
           Contains(Lower(RunModelName(run, <<>>)), Lower(args.model_filter[1]))
    /\ TruthyStr(args.task_filter) =>
           \E k \in 1..Len(RunResults(run)) : RunResults(run)[k].task = args.task_filter[1]

DateSupplied == TruthyDate(args.start_date) \/ TruthyDate(args.end_date)

\* C7: filter_runs with start_date and/or end_date raises nothing and returns
\* every record whose timestamp is absent, empty or unparseable and that
\* satisfies the other supplied criteria.
C7_UndatedKept ==
    (FilterReturned /\ DateSupplied) =>
        /\ raised = ""
        /\ \A i \in 1..Len(all_runs) :
               (~Parses(all_runs[i].timestamp) /\ PassesOthers(all_runs[i]))
                   => \E j \in 1..Len(filtered_runs) : filtered_runs[j] = all_runs[i]

\* C7 witness: with a start date that drops a dated run, a run whose
\* timestamp does not parse is returned.
C7_Witness ==
    /\ FilterReturned
    /\ args.start_date = Some(Iso(2, "")) /\ args.min_accuracy = Some(50)
    /\ Len(all_runs) = 2 /\ Len(filtered_runs) = 1
    /\ all_runs[1].timestamp = Some(Iso(1, "")) /\ RunAccuracy(all_runs[1]) = 50
    /\ all_runs[2].timestamp = Some(JunkTs)
    /\ filtered_runs[1] = all_runs[2]

-----------------------------------------------------------------------------
(* SpecSort: sort_runs called once on scanned runs (lines 259-286)          *)

MaxDirsSort == 3

SortCorpus ==
    { Content(m, Some(a), ts, None) :
        m \in {None, Some(M_gpt)}, a \in {0, 50}, ts \in {None, Some(Iso(1, ""))} }

SortKeys == {"timestamp", "accuracy", "model", "unknown"}

InitSort ==
    /\ \E dir \in DirsOf(SortCorpus, MaxDirsSort) : Scanned(dir)
    /\ pc = "call"

NextSort == \E sort_by \in SortKeys, reverse \in BOOLEAN : SortOnce(sort_by, reverse)

SpecSort == InitSort /\ [][NextSort]_vars

SortReturned == last_op = "sort_runs" /\ pc = "returned"

\* the position in all_runs of a record (run directories are distinct)
PositionOf(run) == CHOOSE i \in 1..Len(all_runs) : all_runs[i] = run

\* the key of a comes before the key of b in the direction asked for
KeyBefore(a, b) ==
    IF args.ascending THEN KeyLess(args.sort_by, a, b) ELSE KeyLess(args.sort_by, b, a)

\* C8: for every sort key and both directions the result of sort_runs is a
\* permutation of the input ordered by the key, and two records with equal
\* keys keep the relative order they had in the input.
C8_SortStable ==
    SortReturned =>
        /\ raised = ""
        /\ Len(sorted_runs) = Len(all_runs)
        /\ \A i \in 1..Len(all_runs) :
               \E j \in 1..Len(sorted_runs) : sorted_runs[j] = all_runs[i]
        /\ \A i, j \in 1..Len(sorted_runs) :
               i < j =>
                   /\ ~KeyBefore(sorted_runs[j], sorted_runs[i])
                   /\ ~KeyBefore(sorted_runs[i], sorted_runs[j])
                          => PositionOf(sorted_runs[i]) < PositionOf(sorted_runs[j])

\* C8 witness: a descending sort by accuracy moves the third run to the
\* front and leaves the first two, which have equal accuracies, in input
\* order behind it.
C8_Witness ==
    /\ SortReturned
    /\ args.sort_by = "accuracy" /\ ~args.ascending
    /\ Len(all_runs) = 3
    /\ RunAccuracy(all_runs[1]) = RunAccuracy(all_runs[2])
    /\ RunAccuracy(all_runs[1]) < RunAccuracy(all_runs[3])
    /\ sorted_runs = <<all_runs[3], all_runs[1], all_runs[2]>>

-----------------------------------------------------------------------------
(* SpecMain: one run of main over a runs directory (lines 439-554)          *)

MaxDirsMain == 2

MainCorpus ==
    { Content(Some(m), Some(a), Some(Iso(1, "")), None) :
        m \in {M_gpt, M_lm}, a \in {0, 50} } \cup
    { Content(Some(m), Some(a), Some(Iso(1, "")), OnlyQa(a)) :
        m \in {M_gpt, M_lm}, a \in {0, 50} }

\* the command lines: --filter-model, --min-accuracy, --max-accuracy,
\* --sort-by with or without --ascending, --csv and --summary
MainFilters ==
    { Criteria(None, None, None, None, None, None),
      Criteria(Some(F_gp), None, None, None, None, None),
      Criteria(None, None, Some(50), None, None, None),
      Criteria(None, None, None, Some(0), None, None),
      Criteria(None, None, None, Some(50), None, None),
      Criteria(Some(F_gp), None, None, Some(0), None, None) }

MainArgs ==
    { Args(c.model_filter, c.task_filter, c.min_accuracy, c.max_accuracy, c.start_date,
           c.end_date, s[1], s[2], out, out) :
        c \in MainFilters,
        s \in {<<"timestamp", FALSE>>, <<"accuracy", TRUE>>, <<"model", FALSE>>},
        out \in BOOLEAN }

InitMain ==
    /\ runs_dir \in DirsOf(MainCorpus, MaxDirsMain) \cup {MissingDir}
    /\ args \in MainArgs
    /\ all_runs = <<>>
    /\ model_stats = <<>>
    /\ task_stats = <<>>
    /\ filtered_runs = <<>>
    /\ sorted_runs = <<>>
    /\ metadata = None
    /\ csv_rows = None
    /\ summary = None
    /\ last_op = "__init__"
    /\ raised = ""
    /\ passes = 0
    /\ calls = 0
    /\ pc = "scan"
    /\ ConfigUnused

NextMain ==
    \/ MainScan
    \/ MainAggregate
    \/ MainFilter
    \/ MainSort
    \/ MainMetadata
    \/ MainCsv
    \/ MainSummary

SpecMain == InitMain /\ [][NextMain]_vars

\* the runs a scan of runs_dir loads
ScannedRuns == ScanAllRuns(<<>>, runs_dir)

\* the tables of a new aggregator fed only the runs that pass the criteria
FreshOverFiltered == Aggregate(EmptyTables, FilterRuns(ScannedRuns, args))

\* main is past the filter step
PastFilter == pc \in {"sort", "metadata", "csv", "summary", "done"}

\* C2: in main, when filtering is applied, no report is written before the
\* tables have been emptied and rebuilt from the filtered runs, and from
\* then on the tables, and the statistics in the metadata and the summary,
\* are those of a new aggregator fed only the filtered runs.
C2_ReaggregatedFromEmpty ==
    /\ ~PastFilter => (metadata = None /\ csv_rows = None /\ summary = None)
    /\ (PastFilter /\ AnyFilter(args)) =>
           /\ model_stats = FreshOverFiltered.model_stats
           /\ task_stats = FreshOverFiltered.task_stats
           /\ metadata /= None =>
                  /\ metadata[1].models =
                         [i \in 1..Len(FreshOverFiltered.model_stats) |->
                              ModelView(FreshOverFiltered.model_stats[i])]
                  /\ metadata[1].tasks =
                         [i \in 1..Len(FreshOverFiltered.task_stats) |->
                              TaskView(FreshOverFiltered.task_stats[i])]
           /\ summary /= None =>
                  summary[1] = PrintSummary(all_runs, FreshOverFiltered.model_stats,
                                            FreshOverFiltered.task_stats)

\* C2 witness: main has finished with a filter that kept one of two scanned
\* runs of the same model; the metadata and the summary are written and
\* count one run for that model.
C2_Witness ==
    /\ pc = "done" /\ AnyFilter(args)
    /\ Len(ScannedRuns) = 2 /\ Len(all_runs) = 1
    /\ RunModelName(ScannedRuns[1], Str_unknown) = RunModelName(ScannedRuns[2], Str_unknown)
    /\ metadata /= None /\ summary /= None
    /\ Len(metadata[1].models) = 1 /\ metadata[1].models[1].total_runs = 1

\* the run summary is within the accuracy bounds lo and hi the caller gave
WithinBounds(average_accuracy, lo, hi) ==
    /\ lo /= None => ~RatLess(average_accuracy, Round4(RatOfInt(lo[1])))
    /\ hi /= None => ~RatLess(Round4(RatOfInt(hi[1])), average_accuracy)

\* C5: in main every accuracy bound the caller gives is applied, a bound of
\* 0.0 included: every run in the metadata written is within the bounds, and
\* the statistics count only those runs.
C5_EverySuppliedBoundApplied ==
    metadata /= None =>
        /\ \A i \in 1..Len(metadata[1].runs) :
               WithinBounds(metadata[1].runs[i].average_accuracy,
                            args.min_accuracy, args.max_accuracy)
        /\ \A k \in 1..Len(metadata[1].models) :
               metadata[1].models[k].total_runs =
                   Cardinality({ i \in 1..Len(ScannedRuns) :
                       /\ RunModelName(ScannedRuns[i], Str_unknown) = metadata[1].models[k].key
                       /\ PassesModel(ScannedRuns[i], args)
                       /\ WithinBounds(Round4(RatOfInt(RunAccuracy(ScannedRuns[i]))),
                                       args.min_accuracy, args.max_accuracy) })

-----------------------------------------------------------------------------
(* SpecTask: scan and one aggregation pass over records whose task results  *)
(* carry "accuracy", "acc", both or neither (lines 120-133)                 *)

MaxDirsTask == 2

\* the task results of one task: {"accuracy": 0.2}, {"acc": 0.5},
\* {"accuracy": 0.2, "acc": 0.5} and {}
TaskResultShapes ==
    { TaskResult(T_qa, Some(20), None), TaskResult(T_qa, None, Some(50)),
      TaskResult(T_qa, Some(20), Some(50)), TaskResult(T_qa, None, None) }

TaskCorpus ==
    { Content(Some(m), Some(50), Some(Iso(1, "")), Some(<<tr>>)) :
        m \in {M_gpt, M_lm}, tr \in TaskResultShapes }

InitTask ==
    /\ \E dir \in DirsOf(TaskCorpus, MaxDirsTask) : Constructed(dir)
    /\ pc = "scan"

NextTask ==
    \/ MainScan
    \/ MainAggregate

SpecTask == InitTask /\ [][NextTask]_vars

\* the position in all_runs of the j-th run that reports the task
NthReporter(task, j) ==
    CHOOSE i \in 1..Len(all_runs) :
        /\ Reports(i, task)
        /\ Cardinality({ h \in 1..i : Reports(h, task) }) = j

\* the value of "accuracy" if present, otherwise of "acc" if present,
\* otherwise 0
AccuracyByPriority(task_result) ==
    IF task_result.accuracy /= None THEN task_result.accuracy[1]
    ELSE IF task_result.acc /= None THEN task_result.acc[1]
    ELSE 0

\* the task result the run at position i has for the task
ResultOf(i, task) ==
    LET items == RunResults(all_runs[i])
    IN  items[CHOOSE k \in 1..Len(items) : items[k].task = task]

\* C11: after aggregate_data from empty state, the accuracy recorded for each
\* (run, task) pair is the value of "accuracy" if the task result has it,
\* otherwise the value of "acc" if it has it, otherwise 0.
C11_AccuracyByPriority ==
    FirstPassDone =>
        \A k \in 1..Len(task_stats) :
            \A j \in 1..Len(task_stats[k].accuracies) :
                task_stats[k].accuracies[j].accuracy =
                    AccuracyByPriority(ResultOf(NthReporter(task_stats[k].key, j),
                                                task_stats[k].key))

-----------------------------------------------------------------------------
(* SpecScan: scan and one aggregation pass over a runs directory whose      *)
(* entries are plain files, directories without data.json, with a           *)
(* data.json that does not parse or is no JSON object, and loadable ones    *)
(* (lines 62-90)                                                            *)

MaxDirsScan == 3

\* what data.json holds where it does not load
NoContent == Content(None, None, None, None)

EntryShapes ==
    { [is_dir |-> FALSE, data |-> "missing", content |-> NoContent],
      [is_dir |-> TRUE, data |-> "missing", content |-> NoContent],
      [is_dir |-> TRUE, data |-> "malformed", content |-> NoContent],
      [is_dir |-> TRUE, data |-> "not_object", content |-> NoContent],
      [is_dir |-> TRUE, data |-> "ok",
       content |-> Content(Some(M_gpt), Some(50), Some(Iso(1, "")), OnlyQa(50))],
      [is_dir |-> TRUE, data |-> "ok",
       content |-> Content(Some(M_lm), Some(0), Some(Iso(1, "")), None)] }

\* the runs directories with up to n entries r1..rk of these shapes
MixedDirs(n) ==
    UNION { { [exists |-> TRUE,
               entries |-> { [name |-> DirName(i), is_dir |-> f[i].is_dir,
                              data |-> f[i].data, content |-> f[i].content] : i \in 1..k }] :
              f \in [1..k -> EntryShapes] } : k \in 0..n }

InitScan ==
    /\ \E dir \in MixedDirs(MaxDirsScan) : Constructed(dir)
    /\ pc = "scan"

NextScan ==
    \/ MainScan
    \/ MainAggregate

SpecScan == InitScan /\ [][NextScan]_vars

\* the names of the run directories that hold a data.json with a JSON object
LoadableNames == { e.name : e \in { x \in runs_dir.entries : x.is_dir /\ x.data = "ok" } }

\* C13: the scan raises nothing and all_runs holds, in name order, one
\* record for each run directory whose data.json is a JSON object and none
\* for a directory without data.json or with one that does not parse or is
\* no JSON object; after the aggregation pass only the loaded directories
\* appear in model_stats and task_stats.
C13_LoadFailuresSkipped ==
    last_op \in {"scan_all_runs", "aggregate_data"} =>
        /\ raised = ""
        /\ Len(all_runs) = Cardinality(LoadableNames)
        /\ \A i \in 1..Len(all_runs) : all_runs[i].run_dir \in LoadableNames
        /\ \A i \in 1..(Len(all_runs) - 1) :
               StrLess(all_runs[i].run_dir, all_runs[i + 1].run_dir)
        /\ last_op = "aggregate_data" =>
               /\ SumTotalRuns(model_stats) = Cardinality(LoadableNames)
               /\ \A k \in 1..Len(model_stats) :
                      \A j \in 1..Len(model_stats[k].runs) :
                          model_stats[k].runs[j] \in LoadableNames
               /\ \A k \in 1..Len(task_stats) :
                      \A j \in 1..Len(task_stats[k].accuracies) :
                          task_stats[k].accuracies[j].run_id \in LoadableNames

\* C13 witness: r1 holds a data.json that does not parse, r2 one that is a
\* JSON list, and the run of r3 is the only one loaded and aggregated.
C13_Witness ==
    /\ last_op = "aggregate_data" /\ raised = ""
    /\ \E e1, e2, e3 \in runs_dir.entries :
           /\ e1.name = DirName(1) /\ e1.data = "malformed"
           /\ e2.name = DirName(2) /\ e2.data = "not_object"
           /\ e3.name = DirName(3) /\ e3.data = "ok"
    /\ Len(all_runs) = 1 /\ all_runs[1].run_dir = DirName(3)
    /\ Len(model_stats) = 1 /\ model_stats[1].runs = <<DirName(3)>>

-----------------------------------------------------------------------------
(* SpecFatal: one run of main over a runs directory that may be missing or  *)
(* hold a record on which the aggregation pass raises (lines 510-554)       *)

MaxDirsFatal == 2

FatalCorpus ==
    { Content(Some(M_gpt), Some(50), Some(Iso(1, "")), OnlyQa(50)),
      Content(Some(M_lm), Some(0), Some(Iso(1, "")), None),
      Content(Some(M_lm), Some(50), Some(Iso(1, "")), Some(<<ScalarResult(T_qa)>>)) }

FatalArgs ==
    { DefaultArgs,
      Args(None, None, None, None, None, None, "accuracy", TRUE, TRUE, TRUE),
      Args(Some(F_gp), None, None, None, None, None, "timestamp", FALSE, TRUE, FALSE) }

InitFatal ==
    /\ runs_dir \in DirsOf(FatalCorpus, MaxDirsFatal) \cup {MissingDir}
    /\ args \in FatalArgs
    /\ all_runs = <<>>
    /\ model_stats = <<>>
    /\ task_stats = <<>>
    /\ filtered_runs = <<>>
    /\ sorted_runs = <<>>
    /\ metadata = None
    /\ csv_rows = None
    /\ summary = None
    /\ last_op = "__init__"
    /\ raised = ""
    /\ passes = 0
    /\ calls = 0
    /\ pc = "scan"
    /\ ConfigUnused

NextFatal ==
    \/ MainScan
    \/ MainAggregate
    \/ MainFilter
    \/ MainSort
    \/ MainMetadata
    \/ MainCsv
    \/ MainSummary

SpecFatal == InitFatal /\ [][NextFatal]_vars

\* something has been written
SomeOutput == metadata /= None \/ csv_rows /= None \/ summary /= None

\* a data.json of the runs directory has a task result that is no dict, on
\* which the first aggregation pass raises
HoldsScalarResult ==
    \E e \in runs_dir.entries :
        \E k \in 1..Len(RunResults(e.content)) : ~RunResults(e.content)[k].is_dict

\* C14: in main nothing is written before the scan and every aggregation
\* pass have completed; when the runs directory is missing or an
\* aggregation pass raises, main ends with neither the metadata nor the CSV
\* (nor the summary) written.
C14_NoOutputBeforeOrAfterFailure ==
    /\ SomeOutput =>
           /\ pc \in {"csv", "summary", "done"}
           /\ raised = ""
           /\ passes = 1
           /\ SumTotalRuns(model_stats) = Len(all_runs)
    /\ pc = "aborted" => (raised /= "" /\ ~SomeOutput)
    /\ (~runs_dir.exists \/ HoldsScalarResult) => ~SomeOutput
    /\ pc = "done" => (runs_dir.exists /\ ~HoldsScalarResult)

\* C14 witness: the first aggregation pass has raised on the second of two
\* records, main has ended with --csv asked for, and nothing is written
\* although the tables already hold the first record.
C14_Witness ==
    /\ pc = "aborted" /\ last_op = "aggregate_data" /\ raised = "AttributeError"
    /\ args.csv
    /\ Len(all_runs) = 2 /\ Len(model_stats) >= 1
    /\ metadata = None /\ csv_rows = None /\ summary = None

-----------------------------------------------------------------------------
(* SpecReport: one run of main over records with and without run_id and     *)
(* wandb_history, writing the metadata and the CSV (lines 288-382, 510-554) *)

MaxDirsReport == 2

Id_ab == <<"a", "b">>

\* one entry of wandb_history: {"name": ..., "url": ...}, either key optional
HistoryEntry(name, url) == [name |-> name, url |-> url]

\* [{"url": "u0"}, {"name": "xab", "url": "u1"}, {"name": "ab", "url": "u2"}]
History_ab ==
    <<HistoryEntry(None, Some("u0")), HistoryEntry(Some(<<"x", "a", "b">>), Some("u1")),
      HistoryEntry(Some(Id_ab), Some("u2"))>>

\* [{"name": "r1r2"}, {"name": "r1", "url": "u3"}]
History_r1 ==
    <<HistoryEntry(Some(<<"r", "1", "r", "2">>), None),
      HistoryEntry(Some(<<"r", "1">>), Some("u3"))>>

TwoTasks == Some(<<TaskResult(T_qa, Some(50), None), TaskResult(T_mc, Some(0), None)>>)

ReportCorpus ==
    { RunRecord(<<>>, id, Some(M_gpt), Some(Iso(1, "")), Some(50), OnlyQa(50), h) :
        id \in {None, Some(<<>>), Some(Id_ab)},
        h \in {None, Some(<<>>), Some(History_ab), Some(History_r1)} } \cup
    { RunRecord(<<>>, None, Some(M_lm), Some(Iso(2, "")), Some(0), None, None),
      RunRecord(<<>>, None, None, None, Some(20), TwoTasks, None) }

ReportArgs ==
    { Args(None, None, None, None, None, None, "timestamp", FALSE, TRUE, TRUE),
      Args(None, None, None, None, None, None, "accuracy", TRUE, TRUE, FALSE),
      Args(None, Some(T_qa), None, None, None, None, "model", FALSE, TRUE, FALSE) }

InitReport ==
    /\ runs_dir \in DirsOf(ReportCorpus, MaxDirsReport)
    /\ args \in ReportArgs
    /\ all_runs = <<>>
    /\ model_stats = <<>>
    /\ task_stats = <<>>
    /\ filtered_runs = <<>>
    /\ sorted_runs = <<>>
    /\ metadata = None
    /\ csv_rows = None
    /\ summary = None
    /\ last_op = "__init__"
    /\ raised = ""
    /\ passes = 0
    /\ calls = 0
    /\ pc = "scan"
    /\ ConfigUnused

NextReport ==
    \/ MainScan
    \/ MainAggregate
    \/ MainFilter
    \/ MainSort
    \/ MainMetadata
    \/ MainCsv
    \/ MainSummary

SpecReport == InitReport /\ [][NextReport]_vars

\* the identifier of a loaded record: its run_id when it has a non-empty
\* one, otherwise the name of its directory
ResolvedId(run) ==
    IF run.run_id /= None /\ run.run_id[1] /= <<>> THEN run.run_id[1] ELSE run.run_dir

ResolvedIds == { ResolvedId(all_runs[i]) : i \in 1..Len(all_runs) }

\* C15: the run identifier of a loaded record is never empty: wherever it is
\* recorded (model run lists, best_run and worst_run, task accuracy triples,
\* metadata run summaries, CSV rows) it is the record's run_id when that is
\* present and not empty, and the directory name otherwise.
C15_RunIdNeverEmpty ==
    /\ \A k \in 1..Len(model_stats) :
           /\ \A j \in 1..Len(model_stats[k].runs) :
                  model_stats[k].runs[j] /= <<>> /\ model_stats[k].runs[j] \in ResolvedIds
           /\ model_stats[k].best_run /= None =>
                  model_stats[k].best_run[1].run_id \in ResolvedIds
           /\ model_stats[k].worst_run /= None =>
                  model_stats[k].worst_run[1].run_id \in ResolvedIds
    /\ \A k \in 1..Len(task_stats) :
           \A j \in 1..Len(task_stats[k].accuracies) :
               task_stats[k].accuracies[j].run_id \in ResolvedIds
    /\ (metadata /= None /\ pc \in {"csv", "summary", "done"}) =>
           \A i \in 1..Len(metadata[1].runs) :
               metadata[1].runs[i].run_id = ResolvedId(all_runs[i])
    /\ csv_rows /= None =>
           \A i \in 1..Len(csv_rows[1].rows) :
               csv_rows[1].rows[i].run_id = ResolvedId(all_runs[i])

\* the positions in the record's wandb_history of the entries whose name
\* contains the identifier
EntriesNaming(run, id) ==
    { k \in 1..Len(RunHistory(run)) :
        /\ RunHistory(run)[k].name /= None
        /\ Contains(RunHistory(run)[k].name[1], id) }

\* the url of the first entry naming the identifier, <<>> when there is no
\* such entry or it has no url
UrlFor(run, id) ==
    IF EntriesNaming(run, id) = {} THEN None
    ELSE RunHistory(run)[Least(EntriesNaming(run, id))].url

\* C17: for every run, the URL in the metadata run summary and in the CSV row
\* is the url of the first entry of wandb_history whose name contains the
\* resolved run identifier; with no history or no such entry it is null in
\* the metadata and the empty string in the CSV.
C17_UrlOfFirstNamingEntry ==
    /\ (metadata /= None /\ pc \in {"csv", "summary", "done"}) =>
           \A i \in 1..Len(metadata[1].runs) :
               metadata[1].runs[i].wandb_url = UrlFor(all_runs[i], ResolvedId(all_runs[i]))
    /\ csv_rows /= None =>
           \A i \in 1..Len(csv_rows[1].rows) :
               csv_rows[1].rows[i].wandb_url =
                   Get(UrlFor(all_runs[i], ResolvedId(all_runs[i])), "")

\* the header row of the CSV as the specification words it
SpecHeader ==
    <<"Run ID", "Model", "Timestamp", "Average Accuracy", "Tasks", "Task Count",
      "External URL">>

\* the header row with the last column named as the file has it
WrittenHeader ==
    <<"Run ID", "Model", "Timestamp", "Average Accuracy", "Tasks", "Task Count", "W&B URL">>

\* the number of names in a ", "-joined column of names without commas
RECURSIVE CountJoined(_)
CountJoined(text) ==
    IF Len(text) = 0 THEN 0
    ELSE IF \E k \in 1..Len(text) : text[k] = ","
    THEN 1 + CountJoined(SubSeq(text, (CHOOSE k \in 1..Len(text) :
                                           text[k] = "," /\ \A h \in 1..(k - 1) : text[h] /= ",") + 2,
                                Len(text)))
    ELSE 1

\* the rows of the CSV are one per record of all_runs, in all_runs order,
\* and Task Count counts the names joined in Tasks
RowsFollowRuns ==
    /\ all_runs = SortRuns(IF AnyFilter(args) THEN FilterRuns(ScannedRuns, args)
                           ELSE ScannedRuns,
                           args.sort_by, ~args.ascending)
    /\ Len(csv_rows[1].rows) = Len(all_runs)
    /\ \A i \in 1..Len(all_runs) :
           /\ csv_rows[1].rows[i].run_id = RunId(all_runs[i])
           /\ csv_rows[1].rows[i].model = RunModelName(all_runs[i], Str_unknown)
           /\ csv_rows[1].rows[i].task_count = CountJoined(csv_rows[1].rows[i].tasks)
           /\ csv_rows[1].rows[i].task_count = Len(RunResults(all_runs[i]))

\* C19: export_csv writes the header Run ID, Model, Timestamp, Average
\* Accuracy, Tasks, Task Count, External URL and then exactly one row per
\* record of all_runs, in all_runs order (filtered and sorted), with Task
\* Count the number of task names joined in Tasks.
C19_CsvHeaderAndRows ==
    csv_rows /= None => (csv_rows[1].header = SpecHeader /\ RowsFollowRuns)

\* C19 with the header as written: the last column is named W&B URL.
C19_CsvWrittenHeaderAndRows ==
    csv_rows /= None => (csv_rows[1].header = WrittenHeader /\ RowsFollowRuns)

\* C19 witness: the CSV of a run that filtered by task and sorted holds one
\* row, for the one of two scanned records that passed, with two task names.
C19_Witness ==
    /\ csv_rows /= None /\ AnyFilter(args)
    /\ Len(ScannedRuns) = 2 /\ Len(all_runs) = 1
    /\ Len(csv_rows[1].rows) = 1
    /\ csv_rows[1].rows[1].task_count = 2
    /\ csv_rows[1].rows[1].run_id = DirName(2)

\* the model names, and the task names, of the runs listed in a document
ListedModels(doc) == { doc.runs[i].model : i \in 1..Len(doc.runs) }
ListedTasks(doc) ==
    UNION { { doc.runs[i].tasks[k] : k \in 1..Len(doc.runs[i].tasks) } : i \in 1..Len(doc.runs) }

\* C16: in every metadata document main writes, total_runs is the length of
\* the runs list and the sum of the models' total_runs, total_models the
\* number of distinct model names among the listed runs, and total_tasks
\* the number of distinct task names among their results.
C16_MetadataCountsAgree ==
    metadata /= None =>
        /\ metadata[1].total_runs = Len(metadata[1].runs)
        /\ metadata[1].total_runs = SumTotalRuns(metadata[1].models)
        /\ metadata[1].total_models = Len(metadata[1].models)
        /\ metadata[1].total_models = Cardinality(ListedModels(metadata[1]))
        /\ metadata[1].total_tasks = Len(metadata[1].tasks)
        /\ metadata[1].total_tasks = Cardinality(ListedTasks(metadata[1]))

\* C16 witness: a document written after a filter dropped the one scanned
\* run that reported a task: it lists one run, one model and no task.
C16_Witness ==
    /\ metadata /= None /\ AnyFilter(args) /\ args.sort_by = "model"
    /\ Len(ScannedRuns) = 2 /\ Len(task_stats) = 0
    /\ \E i \in 1..2 : Len(RunResults(ScannedRuns[i])) = 1
    /\ metadata[1].total_runs = 1
    /\ metadata[1].total_models = 1
    /\ metadata[1].total_tasks = 0

\* the value has at most 4 decimal places
IsRounded4(x) == Round4(x) = x

\* the standard deviation whose square is v has at most 4 decimal places
IsRoundedRoot(v) ==
    LET r == Round4Sqrt(v) IN r.n * r.n * v.d = v.n * r.d * r.d

\* C18: every numeric accuracy field of the models and tasks tables of the
\* metadata document is rounded to 4 decimal places (avg, std, median,
\* the accuracy in best_run and worst_run, avg and std of each
\* task_performance entry, the avg_accuracy in best_model and worst_model),
\* while model_stats keeps the unrounded values.
C18_MetadataRounded ==
    metadata /= None =>
        /\ \A k \in 1..Len(metadata[1].models) :
               LET m == metadata[1].models[k]
               IN  /\ IsRounded4(m.avg_accuracy)
                   /\ IsRounded4(m.std_accuracy)
                   /\ IsRounded4(m.median_accuracy)
                   /\ IsRounded4(RatOfInt(m.best_run[1].accuracy))
                   /\ IsRounded4(RatOfInt(m.worst_run[1].accuracy))
                   /\ \A j \in 1..Len(m.task_performance) :
                          /\ IsRounded4(m.task_performance[j].avg)
                          /\ IsRoundedRoot(m.task_performance[j].std)
        /\ \A k \in 1..Len(metadata[1].tasks) :
               LET t == metadata[1].tasks[k]
               IN  /\ IsRounded4(t.avg_accuracy)
                   /\ IsRounded4(t.std_accuracy)
                   /\ IsRounded4(t.best_model[1].avg_accuracy)
                   /\ IsRounded4(t.worst_model[1].avg_accuracy)
        /\ \A k \in 1..Len(model_stats) :
               model_stats[k].avg_accuracy = Mean(model_stats[k].accuracies)

\* the sum of (n * x - total)^2 over the elements x of xs
RECURSIVE SumSqDev(_, _, _)
SumSqDev(xs, n, total) ==
    IF Len(xs) = 0 THEN 0
    ELSE (n * xs[1] - total) * (n * xs[1] - total) + SumSqDev(Tail(xs), n, total)

\* the Bessel-corrected sample variance of xs: the sum of the squared
\* deviations from the mean over n - 1; 0 with fewer than two observations
SampleVariance(xs) ==
    IF Len(xs) < 2 THEN Zero
    ELSE Rat(SumSqDev(xs, Len(xs), Sum(xs)), Len(xs) * Len(xs) * (Len(xs) - 1))

\* the accuracies the runs at the positions idx report for the task, in run order
RECURSIVE ReportedBy(_, _)
ReportedBy(idx, task) ==
    IF idx = {} THEN <<>>
    ELSE LET i == Least(idx) IN <<ReportedAccuracy(i, task)>> \o ReportedBy(idx \ {i}, task)

\* C20: after an aggregation pass from empty state the standard deviation
\* (carried as its square) of a model, of a task and of a model's per-task
\* entry is 0 with fewer than two observations and the Bessel-corrected
\* sample value with two or more.
C20_StdZeroBelowTwo ==
    FirstPassDone =>
        /\ \A k \in 1..Len(model_stats) :
               /\ model_stats[k].std_accuracy = SampleVariance(model_stats[k].accuracies)
               /\ model_stats[k].total_runs = 1 => model_stats[k].std_accuracy = Zero
               /\ \A j \in 1..Len(model_stats[k].task_results) :
                      LET e == model_stats[k].task_results[j]
                          xs == ReportedBy(ReportsOf(model_stats[k].key, e.key), e.key)
                      IN  /\ e.samples = Len(xs)
                          /\ e.std = SampleVariance(xs)
                          /\ e.samples = 1 => e.std = Zero
        /\ \A k \in 1..Len(task_stats) :
               LET xs == [i \in 1..Len(task_stats[k].accuracies) |->
                              task_stats[k].accuracies[i].accuracy]
               IN  /\ task_stats[k].std_accuracy = SampleVariance(xs)
                   /\ Len(xs) = 1 => task_stats[k].std_accuracy = Zero

\* C20 witness: one model has a single run and a zero standard deviation,
\* another has two runs with different accuracies and a non-zero one, and a
\* task reported by one run only has a zero standard deviation.
C20_Witness ==
    /\ FirstPassDone
    /\ \E k, h \in 1..Len(model_stats) :
           /\ model_stats[k].total_runs = 1 /\ model_stats[k].std_accuracy = Zero
           /\ model_stats[h].total_runs = 2 /\ model_stats[h].std_accuracy /= Zero
    /\ \E k \in 1..Len(task_stats) :
           Len(task_stats[k].accuracies) = 1 /\ task_stats[k].std_accuracy = Zero

-----------------------------------------------------------------------------
(* SpecMedian: one model with up to four runs, scanned and aggregated once  *)

MaxDirsMedian == 4

MedianCorpus ==
    { Content(Some(M_lm), Some(a), Some(Iso(1, "")), None) : a \in {20, 40, 60, 80} }

InitMedian ==
    /\ \E dir \in DirsOf(MedianCorpus, MaxDirsMedian) : Constructed(dir)
    /\ pc = "scan"

NextMedian ==
    \/ MainScan
    \/ MainAggregate

SpecMedian == InitMedian /\ [][NextMedian]_vars

\* the k-th smallest element of xs, counting repetitions
KthSmallest(xs, k) ==
    CHOOSE v \in { xs[i] : i \in 1..Len(xs) } :
        /\ Cardinality({ i \in 1..Len(xs) : xs[i] < v }) < k
        /\ Cardinality({ i \in 1..Len(xs) : xs[i] <= v }) >= k

\* the middle element by rank for an odd count, the mean of the two middle
\* elements by rank for an even count
MiddleByRank(xs) ==
    LET n == Len(xs)
    IN  IF n % 2 = 1 THEN RatOfInt(KthSmallest(xs, (n + 1) \div 2))
        ELSE Rat(KthSmallest(xs, n \div 2) + KthSmallest(xs, n \div 2 + 1), 2)

\* C21: after aggregate_data from empty state, every model's median_accuracy
\* is the median of its accuracies in ascending order (the middle element for
\* an odd count, the mean of the two middle elements for an even count),
\* whatever the order in which the runs were scanned.
C21_MedianOfSorted ==
    FirstPassDone =>
        \A k \in 1..Len(model_stats) :
            LET idx == RunsOfModel(model_stats[k].key)
                xs == [j \in 1..Cardinality(idx) |->
                          RunAccuracy(all_runs[CHOOSE i \in idx :
                              Cardinality({ h \in idx : h < i }) = j - 1])]
            IN  /\ model_stats[k].accuracies = xs
                /\ model_stats[k].median_accuracy = MiddleByRank(xs)

\* C21 witness: the accuracies 0.8, 0.2, 0.6, 0.4 were scanned out of order and
\* the median is 0.5.
C21_Witness ==
    /\ FirstPassDone
    /\ Len(model_stats) = 1
    /\ model_stats[1].accuracies = <<80, 20, 60, 40>>
    /\ model_stats[1].median_accuracy = RatOfInt(50)

-----------------------------------------------------------------------------
(* SpecFold: records with and without results, and without a model name,   *)
(* scanned and aggregated once                                              *)

MaxDirsFold == 2

FoldCorpus ==
    { Content(m, Some(a), Some(Iso(1, "")), r) :
        m \in {None, Some(M_gpt), Some(M_lm)}, a \in {0, 50},
        r \in {None, Some(<<>>), OnlyQa(50)} }

InitFold ==
    /\ \E dir \in DirsOf(FoldCorpus, MaxDirsFold) : Constructed(dir)
    /\ pc = "scan"

NextFold ==
    \/ MainScan
    \/ MainAggregate

SpecFold == InitFold /\ [][NextFold]_vars

\* the record has no results field, or an empty results mapping
HasNoResults(run) == run.results = None \/ run.results = Some(<<>>)

\* the tables after the loop of a pass from empty tables has folded the first
\* k records of all_runs
FoldedUpTo(k) == FoldRuns(EmptyTables, SubSeq(all_runs, 1, k), 1)

\* the entry of the model name in the table ms, the default entry when absent
EntryOf(ms, name) ==
    IF HasKey(ms, name) THEN ms[KeyIndex(ms, name)] ELSE DefaultModelStat(name)

\* between the tables before and after, only the entry of the record's model
\* differs, and in that entry only runs, accuracies, total_runs, best_run and
\* worst_run; nothing was raised
OnlyModelEntryChanged(before, after, run) ==
    LET name == RunModelName(run, Str_unknown)
        old == EntryOf(before.model_stats, name)
        new == EntryOf(after.model_stats, name)
    IN  /\ after.raised = ""
        /\ after.task_stats = before.task_stats
        /\ { after.model_stats[i].key : i \in 1..Len(after.model_stats) } =
               { before.model_stats[i].key : i \in 1..Len(before.model_stats) } \cup {name}
        /\ \A i \in 1..Len(after.model_stats) :
               /\ after.model_stats[i].task_results =
                      EntryOf(before.model_stats, after.model_stats[i].key).task_results
               /\ after.model_stats[i].key /= name =>
                      after.model_stats[i] = before.model_stats[i]
        /\ new.runs = Append(old.runs, RunId(run))
        /\ new.accuracies = Append(old.accuracies, RunAccuracy(run))
        /\ new.total_runs = old.total_runs + 1
        /\ new.best_run \in {old.best_run, Some(Snapshot(run))}
        /\ new.worst_run \in {old.worst_run, Some(Snapshot(run))}
        /\ new = [old EXCEPT !.runs = new.runs, !.accuracies = new.accuracies,
                             !.total_runs = new.total_runs, !.best_run = new.best_run,
                             !.worst_run = new.worst_run]

\* C22: folding a record without results (no results field, or an empty
\* mapping) changes only that record's model entry in model_stats (runs,
\* accuracies, total_runs, best_run, worst_run), leaves task_stats and every
\* model's task_results unchanged, and raises nothing: in each iteration of a
\* pass from empty tables, and when folded onto the tables as they stand.
C22_NoResultsOnlyModelEntry ==
    \A k \in 1..Len(all_runs) :
        HasNoResults(all_runs[k]) =>
            /\ FirstPassDone =>
                   OnlyModelEntryChanged(FoldedUpTo(k - 1), FoldedUpTo(k), all_runs[k])
            /\ raised = "" =>
                   OnlyModelEntryChanged(Tables, FoldRun(Tables, all_runs[k]), all_runs[k])

\* C22 witness: a pass folded a record with results and then a record of the
\* same model without results; the task has the one triple of the first
\* record, and the model both runs.
C22_Witness ==
    /\ FirstPassDone
    /\ Len(all_runs) = 2
    /\ ~HasNoResults(all_runs[1]) /\ HasNoResults(all_runs[2])
    /\ Len(model_stats) = 1 /\ model_stats[1].total_runs = 2
    /\ Len(task_stats) = 1 /\ Len(task_stats[1].accuracies) = 1
    /\ model_stats[1].task_results[1].samples = 1

-----------------------------------------------------------------------------
(* SpecRead: an aggregator that has scanned and aggregated once, and whose *)
(* reading operations are then called in any order                          *)

\* aggregator.generate_metadata(path)
MetadataCall ==
    /\ pc = "api" /\ calls < MaxOps
    /\ metadata' = Some(GenerateMetadata(all_runs, model_stats, task_stats))
    /\ last_op' = "generate_metadata"
    /\ raised' = ""
    /\ calls' = calls + 1 /\ pc' = pc
    /\ UNCHANGED <<runs_dir, all_runs, model_stats, task_stats, args, filtered_runs,
                   sorted_runs, csv_rows, summary, passes>>
    /\ UNCHANGED config_vars

\* aggregator.export_csv(path)
CsvCall ==
    /\ pc = "api" /\ calls < MaxOps
    /\ csv_rows' = Some(ExportCsv(all_runs))
    /\ last_op' = "export_csv"
    /\ raised' = ""
    /\ calls' = calls + 1 /\ pc' = pc
    /\ UNCHANGED <<runs_dir, all_runs, model_stats, task_stats, args, filtered_runs,
                   sorted_runs, metadata, summary, passes>>
    /\ UNCHANGED config_vars

\* aggregator.print_summary()
SummaryCall ==
    /\ pc = "api" /\ calls < MaxOps
    /\ summary' = Some(PrintSummary(all_runs, model_stats, task_stats))
    /\ last_op' = "print_summary"
    /\ raised' = ""
    /\ calls' = calls + 1 /\ pc' = pc
    /\ UNCHANGED <<runs_dir, all_runs, model_stats, task_stats, args, filtered_runs,
                   sorted_runs, metadata, csv_rows, passes>>
    /\ UNCHANGED config_vars

MaxDirsRead == 2

ReadCorpus ==
    { Content(Some(m), Some(0), Some(Iso(1, "")), None) : m \in {M_gpt, M_lm} } \cup
    { Content(Some(m), Some(50), Some(Iso(1, "")), OnlyQa(50)) : m \in {M_gpt, M_lm} }

ReadCriteria ==
    { Criteria(Some(F_gp), None, None, None, None, None),
      Criteria(None, Some(T_mc), None, None, None, None) }

\* the state after scan_all_runs and aggregate_data on a new aggregator
InitRead ==
    /\ \E dir \in DirsOf(ReadCorpus, MaxDirsRead) :
           /\ runs_dir = dir
           /\ all_runs = ScanAllRuns(<<>>, dir)
           /\ model_stats = Aggregate(EmptyTables, ScanAllRuns(<<>>, dir)).model_stats
           /\ task_stats = Aggregate(EmptyTables, ScanAllRuns(<<>>, dir)).task_stats
    /\ args = DefaultArgs
    /\ filtered_runs = <<>>
    /\ sorted_runs = <<>>
    /\ metadata = None
    /\ csv_rows = None
    /\ summary = None
    /\ last_op = "aggregate_data"
    /\ raised = ""
    /\ passes = 1
    /\ calls = 0
    /\ pc = "api"
    /\ ConfigUnused

NextRead ==
    \/ \E c \in ReadCriteria : FilterCall(c)
    \/ \E sort_by \in {"accuracy", "model"} : SortCall(sort_by, TRUE)
    \/ MetadataCall
    \/ CsvCall
    \/ SummaryCall

SpecRead == InitRead /\ [][NextRead]_vars

ReadOps == {"filter_runs", "sort_runs", "generate_metadata", "export_csv", "print_summary"}

\* C23: print_summary, generate_metadata, export_csv, filter_runs and
\* sort_runs are pure reads of the aggregator: a call of any of them leaves
\* all_runs (contents and order, hence every loaded record), model_stats and
\* task_stats (key sets included: no entry is created by a read) as they were.
C23_ReadsLeaveStateAlone ==
    [][(calls' = calls + 1 /\ last_op' \in ReadOps)
       => (/\ all_runs' = all_runs
           /\ model_stats' = model_stats
           /\ task_stats' = task_stats
           /\ { model_stats'[k].key : k \in 1..Len(model_stats') } =
                  { model_stats[k].key : k \in 1..Len(model_stats) }
           /\ { task_stats'[k].key : k \in 1..Len(task_stats') } =
                  { task_stats[k].key : k \in 1..Len(task_stats) })]_vars

\* C23 witness: after a filter that dropped a run, a sort that reordered the
\* runs, and metadata and a summary were produced, all_runs and the tables are
\* still those of the scan and the first pass.
C23_Witness ==
    /\ calls = 4
    /\ last_op \in ReadOps
    /\ metadata /= None /\ summary /= None
    /\ Len(all_runs) = 2
    /\ Len(filtered_runs) = 1
    /\ sorted_runs /= all_runs /\ Len(sorted_runs) = 2
    /\ all_runs = ScanAllRuns(<<>>, runs_dir)
    /\ model_stats = Aggregate(EmptyTables, all_runs).model_stats
    /\ task_stats = Aggregate(EmptyTables, all_runs).task_stats
    /\ Len(task_stats) = 1

-----------------------------------------------------------------------------
(* The per-task lists after a pass (SpecAgg, and SpecReport for two tasks) *)

\* the positions in all_runs of the records that report the task
ReportingRuns(task) == { i \in 1..Len(all_runs) : Reports(i, task) }

\* the j-th smallest element of a set of numbers
NthOf(S, j) == CHOOSE i \in S : Cardinality({ h \in S : h < i }) = j - 1

\* the triple the record at position i contributes for the task
TripleOf(i, task) ==
    [model |-> RunModelName(all_runs[i], Str_unknown),
     accuracy |-> ReportedAccuracy(i, task),
     run_id |-> RunId(all_runs[i])]

\* C24: after an aggregation pass from empty state, for every task in
\* task_stats the models list has no duplicates, is ordered by each model's
\* first contributing run in all_runs order, and equals the set of model names
\* in the task's triples; accuracies holds exactly one triple per (record,
\* task) pair in which the record reports the task, in all_runs order.
C24_TaskModelsAndTriples ==
    FirstPassDone =>
        /\ { task_stats[k].key : k \in 1..Len(task_stats) } =
               UNION { { RunTasks(all_runs[i])[j] : j \in 1..Len(RunTasks(all_runs[i])) } :
                       i \in 1..Len(all_runs) }
        /\ \A k \in 1..Len(task_stats) :
               LET task == task_stats[k].key
                   models == task_stats[k].models
                   triples == task_stats[k].accuracies
                   idx == ReportingRuns(task)
               IN  /\ \A a, b \in 1..Len(models) : a /= b => models[a] /= models[b]
                   /\ \A a, b \in 1..Len(models) :
                          a < b => ReportedFirst(models[a], models[b], task)
                   /\ { models[a] : a \in 1..Len(models) } =
                          { triples[j].model : j \in 1..Len(triples) }
                   /\ Len(triples) = Cardinality(idx)
                   /\ \A j \in 1..Len(triples) : triples[j] = TripleOf(NthOf(idx, j), task)

\* C24 witness: the model of the first record reports the task only in its
\* second run, after a run of the other model: two triples, two models, and
\* the model that model_stats lists first is second in the task's models.
C24_Witness ==
    /\ FirstPassDone
    /\ Len(all_runs) = 3
    /\ ~Reports(1, T_qa)
    /\ Len(task_stats) = 1
    /\ Len(task_stats[1].accuracies) = 2
    /\ Len(task_stats[1].models) = 2
    /\ Len(model_stats) = 2
    /\ model_stats[1].key = task_stats[1].models[2]

-----------------------------------------------------------------------------
(* SpecList: directories whose entries have names of different lengths and *)
(* case, scanned once or several times                                      *)

MaxNames == 4

\* "r2", "r10", "r1", "R3", "r"
NameList ==
    << <<"r", "2">>, <<"r", "1", "0">>, <<"r", "1">>, <<"R", "3">>, <<"r">> >>

\* what an entry of the runs directory can be: a plain file, a directory whose
\* data.json does not parse, a directory with a record
ListShapes ==
    { [is_dir |-> FALSE, data |-> "missing", content |-> NoContent],
      [is_dir |-> TRUE, data |-> "malformed", content |-> NoContent],
      [is_dir |-> TRUE, data |-> "ok",
       content |-> Content(Some(M_lm), Some(50), Some(Iso(1, "")), None)] }

\* the runs directories holding any of the first n names, each of any shape
NamedDirs(n) ==
    UNION { { [exists |-> TRUE,
               entries |-> { [name |-> NameList[i], is_dir |-> f[i].is_dir,
                              data |-> f[i].data, content |-> f[i].content] : i \in S }] :
              f \in [S -> ListShapes] } : S \in SUBSET (1..n) }

InitList ==
    /\ \E dir \in NamedDirs(MaxNames) : Constructed(dir)
    /\ pc = "api"

NextList == ScanCall

SpecList == InitList /\ [][NextList]_vars

\* a comes before b in code point order; a proper prefix comes first
LexBefore(a, b) ==
    \E i \in 1..(Len(b)) :
        /\ \A h \in 1..(i - 1) : h <= Len(a) /\ a[h] = b[h]
        /\ \/ Len(a) = i - 1
           \/ Len(a) >= i /\ Ord(a[i]) < Ord(b[i])

\* the immediate subdirectories whose data.json loads
LoadableDirs == { e \in runs_dir.entries : e.is_dir /\ e.data = "ok" }

\* their records in ascending lexical order of directory name
RecordsByName ==
    [j \in 1..Cardinality(LoadableDirs) |->
        LET e == CHOOSE x \in LoadableDirs :
                     Cardinality({ o \in LoadableDirs : LexBefore(o.name, x.name) }) = j - 1
        IN  [e.content EXCEPT !.run_dir = e.name]]

\* C25: scan_all_runs appends to all_runs exactly the successfully loaded
\* records of the immediate subdirectories of the runs directory, in ascending
\* lexical order of directory name; non-directory entries are ignored and a
\* skipped directory does not change the relative order of the others.
C25_ScanAppendsInNameOrder ==
    [][(last_op' = "scan_all_runs" /\ calls' = calls + 1)
       => (/\ raised' = ""
           /\ all_runs' = all_runs \o RecordsByName)]_vars

\* C25 witness: the directory holds R3, r1 and r2 with records and r10 whose
\* data.json does not parse; a second scan has appended R3, r1, r2 after the
\* R3, r1, r2 of the first.
C25_Witness ==
    /\ last_op = "scan_all_runs" /\ calls = 2
    /\ Cardinality(runs_dir.entries) = 4
    /\ \E e \in runs_dir.entries : e.name = <<"r", "1", "0">> /\ e.data = "malformed"
    /\ Len(all_runs) = 6
    /\ [i \in 1..6 |-> all_runs[i].run_dir] =
           << <<"R", "3">>, <<"r", "1">>, <<"r", "2">>, <<"R", "3">>, <<"r", "1">>, <<"r", "2">> >>

-----------------------------------------------------------------------------
(* SpecUnknown: main over records with and without a model name            *)

MaxDirsUnknown == 2

UnknownCorpus ==
    { Content(m, Some(a), Some(Iso(1, "")), None) :
        m \in {None, Some(M_lm), Some(Str_unknown)}, a \in {0, 50} }

UnknownArgs ==
    { Args(f, None, None, None, None, None, s, TRUE, TRUE, TRUE) :
        f \in {None, Some(M_lm), Some(Str_unknown)}, s \in {"model", "timestamp"} }

InitUnknown ==
    /\ runs_dir \in DirsOf(UnknownCorpus, MaxDirsUnknown)
    /\ args \in UnknownArgs
    /\ all_runs = <<>>
    /\ model_stats = <<>>
    /\ task_stats = <<>>
    /\ filtered_runs = <<>>
    /\ sorted_runs = <<>>
    /\ metadata = None
    /\ csv_rows = None
    /\ summary = None
    /\ last_op = "__init__"
    /\ raised = ""
    /\ passes = 0
    /\ calls = 0
    /\ pc = "scan"
    /\ ConfigUnused

NextUnknown ==
    \/ MainScan
    \/ MainAggregate
    \/ MainFilter
    \/ MainSort
    \/ MainMetadata
    \/ MainCsv
    \/ MainSummary

SpecUnknown == InitUnknown /\ [][NextUnknown]_vars

\* the model name of a record, "unknown" when it has none
NameOrUnknown(run) == IF run.model_name = None THEN Str_unknown ELSE run.model_name[1]

\* the directories of the scanned records whose name, "unknown" when missing,
\* contains the model filter (case-insensitively)
MatchingByName ==
    { ScannedRuns[i].run_dir :
        i \in { j \in 1..Len(ScannedRuns) :
                  Contains(Lower(NameOrUnknown(ScannedRuns[j])), Lower(args.model_filter[1])) } }

\* C26: a record without a model name is treated as model "unknown" by every
\* stage: aggregated under the key "unknown", listed as "unknown" in the
\* metadata and the CSV, matched by filter_runs and ordered by sort_runs as if
\* its name were "unknown"; every model key of the unfiltered model_stats
\* selects at least one record when passed as model_filter.
C26_UnknownEverywhere ==
    /\ (pc = "filter" /\ raised = "") =>
           /\ { model_stats[k].key : k \in 1..Len(model_stats) } =
                  { NameOrUnknown(all_runs[i]) : i \in 1..Len(all_runs) }
           /\ \A k \in 1..Len(model_stats) :
                  FilterRuns(all_runs, Criteria(Some(model_stats[k].key), None, None, None,
                                                None, None)) /= <<>>
    /\ (PastFilter /\ args.model_filter /= None) =>
           { all_runs[i].run_dir : i \in 1..Len(all_runs) } = MatchingByName
    /\ (pc \in {"metadata", "csv", "summary", "done"} /\ args.sort_by = "model") =>
           \A i \in 1..(Len(all_runs) - 1) :
               ~StrLess(NameOrUnknown(all_runs[i + 1]), NameOrUnknown(all_runs[i]))
    /\ metadata /= None =>
           \A i \in 1..Len(all_runs) :
               metadata[1].runs[i].model = NameOrUnknown(all_runs[i])
    /\ csv_rows /= None =>
           \A i \in 1..Len(all_runs) :
               csv_rows[1][i + 1].model = NameOrUnknown(all_runs[i])

-----------------------------------------------------------------------------
(* bench/config/merger.py.  A dict is an object on the heap: a sequence of  *)
(* entries [key, value] in insertion order, where a value is a number      *)
(* ([is_dict |-> FALSE, v |-> number]) or a reference to another dict      *)
(* ([is_dict |-> TRUE, v |-> address]).  Operators that allocate return the *)
(* new heap with the address of their result.                              *)

\* class ConfigPriority
DEFAULT == 0
FILE == 1
ENVIRONMENT == 2
RUNTIME == 3
HOT_RELOAD == 4

Scalar(n) == [is_dict |-> FALSE, v |-> n]
Ref(address) == [is_dict |-> TRUE, v |-> address]

\* _deep_merge with result = dict1 instead of dict1.copy(): dict1 itself is
\* written
RECURSIVE DeepMerge_NoCopy(_, _, _)
RECURSIVE MergeItems_NoCopy(_, _, _, _)
DeepMerge_NoCopy(h, dict1, dict2) ==
    [heap |-> MergeItems_NoCopy(h, dict1, dict2, 1), ref |-> dict1]

MergeItems_NoCopy(h, result, dict2, k) ==
    IF k > Len(h[dict2]) THEN h
    ELSE
      LET item == h[dict2][k]
          i == KeyIndex(h[result], item.key)
      IN  IF i /= 0 /\ h[result][i].value.is_dict /\ item.value.is_dict
          THEN LET sub == DeepMerge_NoCopy(h, h[result][i].value.v, item.value.v)
               IN  MergeItems_NoCopy([sub.heap EXCEPT ![result][i].value = Ref(sub.ref)],
                                     result, dict2, k + 1)
          ELSE IF i /= 0
          THEN MergeItems_NoCopy([h EXCEPT ![result][i].value = item.value],
                                 result, dict2, k + 1)
          ELSE MergeItems_NoCopy([h EXCEPT ![result] = Append(@, item)],
                                 result, dict2, k + 1)

\* lines 56-75: result = dict1.copy() is a new object holding dict1's entries
\* (nested dicts are shared, not copied); MergeItems is the loop of lines 69-73
\* from the k-th item of dict2 on
RECURSIVE DeepMerge(_, _, _)
RECURSIVE MergeItems(_, _, _, _)
DeepMerge(h, dict1, dict2) ==
    LET result == Len(h) + 1
    IN  [heap |-> MergeItems(Append(h, h[dict1]), result, dict2, 1), ref |-> result]

MergeItems(h, result, dict2, k) ==
    IF k > Len(h[dict2]) THEN h
    ELSE
      LET item == h[dict2][k]
          i == KeyIndex(h[result], item.key)
      IN  IF i /= 0 /\ h[result][i].value.is_dict /\ item.value.is_dict
          THEN \* line 71
               LET sub == DeepMerge(h, h[result][i].value.v, item.value.v)
               IN  MergeItems([sub.heap EXCEPT ![result][i].value = Ref(sub.ref)],
                              result, dict2, k + 1)
          ELSE IF i /= 0
          THEN \* line 73, the key is there
               MergeItems([h EXCEPT ![result][i].value = item.value], result, dict2, k + 1)
          ELSE \* line 73, a new key
               MergeItems([h EXCEPT ![result] = Append(@, item)], result, dict2, k + 1)

\* insert the pair x after the pairs of the ascending sequence s whose
\* priority is not larger
RECURSIVE InsertByPriority(_, _)
InsertByPriority(x, s) ==
    IF Len(s) = 0 THEN <<x>>
    ELSE IF x.priority < s[1].priority THEN <<x>> \o s
    ELSE <<s[1]>> \o InsertByPriority(x, Tail(s))

\* line 46: sorted(zip(configs, priorities), key=lambda x: x[1]), a stable
\* sort; the first k pairs, sorted
RECURSIVE SortedPairs(_, _)
SortedPairs(pairs, k) ==
    IF k = 0 THEN <<>> ELSE InsertByPriority(pairs[k], SortedPairs(pairs, k - 1))

\* lines 48-50, from the k-th pair on
RECURSIVE MergeAll(_, _, _, _)
MergeAll(h, merged_ref, pairs, k) ==
    IF k > Len(pairs) THEN [heap |-> h, ref |-> merged_ref, raised |-> ""]
    ELSE LET r == DeepMerge(h, merged_ref, pairs[k].config)
         IN  MergeAll(r.heap, r.ref, pairs, k + 1)

\* lines 23-53: merge_configs(cfgs, prios) on the heap h; prios is <<>> for
\* None or <<list>>.  ref is 0 when ValueError is raised
MergeConfigs(h, cfgs, prios) ==
    IF Len(cfgs) = 0 THEN [heap |-> Append(h, <<>>), ref |-> Len(h) + 1, raised |-> ""]
    ELSE
      LET ps == IF prios = None THEN [i \in 1..Len(cfgs) |-> FILE] ELSE prios[1]
      IN  IF Len(cfgs) /= Len(ps)
          THEN [heap |-> h, ref |-> 0, raised |-> "ValueError"]
          ELSE LET pairs == [i \in 1..Len(cfgs) |-> [config |-> cfgs[i], priority |-> ps[i]]]
               IN  MergeAll(Append(h, <<>>), Len(h) + 1, SortedPairs(pairs, Len(pairs)), 1)

\* A dict as a value: entries [key, value] with value a number (Num) or a
\* nested dict value (Sub).
Entry(key, value) == [key |-> key, value |-> value]
Num(n) == [is_dict |-> FALSE, v |-> n, items |-> <<>>]
Sub(entries) == [is_dict |-> TRUE, v |-> 0, items |-> entries]

\* the value of the dict at the address
RECURSIVE ValueOf(_, _)
ValueOf(h, address) ==
    [i \in 1..Len(h[address]) |->
        [key |-> h[address][i].key,
         value |-> IF h[address][i].value.is_dict
                   THEN Sub(ValueOf(h, h[address][i].value.v))
                   ELSE Num(h[address][i].value.v)]]

\* the dict value d built on the heap (json.load, or a dict literal): nested
\* dicts first, then the dict itself; AllocItems handles d's entries from the
\* k-th on, done holding the entries built so far
RECURSIVE Alloc(_, _)
RECURSIVE AllocItems(_, _, _, _)
Alloc(h, d) ==
    LET r == AllocItems(h, d, 1, <<>>)
    IN  [heap |-> Append(r.heap, r.entries), ref |-> Len(r.heap) + 1]

AllocItems(h, d, k, done) ==
    IF k > Len(d) THEN [heap |-> h, entries |-> done]
    ELSE IF d[k].value.is_dict
    THEN LET sub == Alloc(h, d[k].value.items)
         IN  AllocItems(sub.heap, d, k + 1,
                        Append(done, [key |-> d[k].key, value |-> Ref(sub.ref)]))
    ELSE AllocItems(h, d, k + 1,
                    Append(done, [key |-> d[k].key, value |-> Scalar(d[k].value.v)]))

\* the dict values ds built one after the other, from the k-th on
RECURSIVE AllocAll(_, _, _, _)
AllocAll(h, ds, k, refs) ==
    IF k > Len(ds) THEN [heap |-> h, refs |-> refs]
    ELSE LET a == Alloc(h, ds[k]) IN AllocAll(a.heap, ds, k + 1, Append(refs, a.ref))

\* merge_configs on dict values: the value of the dict returned
MergedValue(ds, prios) ==
    LET a == AllocAll(<<>>, ds, 1, <<>>)
        r == MergeConfigs(a.heap, a.refs, prios)
    IN  ValueOf(r.heap, r.ref)

\* merged = merge_configs(configs, priorities)
MergeCall ==
    /\ merged = None
    /\ LET r == MergeConfigs(heap, configs, priorities)
       IN  /\ heap' = r.heap
           /\ merged' = Some([ref |-> r.ref, raised |-> r.raised])
    /\ UNCHANGED <<configs, priorities>>
    /\ UNCHANGED <<files, watched_files, callbacks, _running, _thread, loops, callers,
                   notified, unwatched>>
    /\ UNCHANGED aggregator_vars

-----------------------------------------------------------------------------
(* SpecMerge: one call of merge_configs on up to MaxConfigs dicts           *)

\* the aggregator side where only the configuration code is looked at
AggregatorUnused ==
    /\ runs_dir = MissingDir
    /\ all_runs = <<>>
    /\ model_stats = <<>>
    /\ task_stats = <<>>
    /\ args = DefaultArgs
    /\ filtered_runs = <<>>
    /\ sorted_runs = <<>>
    /\ metadata = None
    /\ csv_rows = None
    /\ summary = None
    /\ last_op = "__init__"
    /\ raised = ""
    /\ passes = 0
    /\ calls = 0
    /\ pc = "unused"

MaxConfigs == 3

\* {}, {"k": 1}, {"k": 2}, {"k": {"a": 1}}, {"k": {"b": 2}}, {"k": {"a": 2}},
\* {"j": 1, "k": {"a": 1, "b": 1}}
MergeCorpus ==
    { <<>>,
      <<Entry("k", Num(1))>>,
      <<Entry("k", Num(2))>>,
      <<Entry("k", Sub(<<Entry("a", Num(1))>>))>>,
      <<Entry("k", Sub(<<Entry("b", Num(2))>>))>>,
      <<Entry("k", Sub(<<Entry("a", Num(2))>>))>>,
      <<Entry("j", Num(1)), Entry("k", Sub(<<Entry("a", Num(1)), Entry("b", Num(1))>>))>> }

\* the priorities passed with n configs: None, a list of n priorities, or a
\* list of the wrong length
PriorityArgs(n) ==
    {None} \cup { Some(ps) : ps \in [1..n -> {FILE, HOT_RELOAD}] }
           \cup { Some(<<FILE, FILE, FILE, FILE, FILE, FILE>>) }

InitMerge ==
    /\ \E n \in 0..MaxConfigs :
           \E ds \in [1..n -> MergeCorpus] :
               LET a == AllocAll(<<>>, ds, 1, <<>>)
               IN  /\ heap = a.heap
                   /\ configs = a.refs
                   /\ priorities \in PriorityArgs(n)
    /\ merged = None
    /\ files = <<>>
    /\ watched_files = <<>>
    /\ callbacks = {}
    /\ _running = FALSE
    /\ _thread = 0
    /\ loops = <<>>
    /\ callers = <<>>
    /\ notified = <<>>
    /\ unwatched = {}
    /\ AggregatorUnused

NextMerge == MergeCall

SpecMerge == InitMerge /\ [][NextMerge]_vars

\* the value of key in the dict value d; key is in d
At(d, key) == d[KeyIndex(d, key)].value

\* the keys of a dict value
KeysOf(d) == { d[i].key : i \in 1..Len(d) }

\* the priority given to the i-th config (FILE when no list is passed)
PriorityOf(i) == IF priorities = None THEN FILE ELSE priorities[1][i]

\* config i is merged before config j: lower priority, or the same priority
\* and earlier in the list
MergedBefore(i, j) ==
    PriorityOf(i) < PriorityOf(j) \/ (PriorityOf(i) = PriorityOf(j) /\ i < j)

\* of a non-empty set of positions, the one merged last
LastOf(S) == CHOOSE i \in S : \A j \in S \ {i} : MergedBefore(j, i)

\* the value of the i-th input config
InputValue(i) == ValueOf(heap, configs[i])

\* the positions of the configs that define the key
Definers(key) == { i \in 1..Len(configs) : key \in KeysOf(InputValue(i)) }

\* the configs that define the key to a non-dictionary, and those that come
\* after the last of them in merge order
ScalarDefiners(key) == { i \in Definers(key) : ~At(InputValue(i), key).is_dict }
TopDictDefiners(key) ==
    { i \in Definers(key) : \A j \in ScalarDefiners(key) : MergedBefore(j, i) }

\* the key-by-key merge of the dictionaries that the configs at S give to
\* key: each sub-key has the value of the last config among those defining it
SubKeyRule(result, key, S) ==
    /\ result.is_dict
    /\ KeysOf(result.items) = UNION { KeysOf(At(InputValue(i), key).items) : i \in S }
    /\ \A sub \in KeysOf(result.items) :
           At(result.items, sub) =
               At(At(InputValue(LastOf({ i \in S :
                                           sub \in KeysOf(At(InputValue(i), key).items) })),
                     key).items, sub)

\* the call has returned a dict
Returned == merged = None /\ merged' /= None /\ merged'[1].raised = ""

\* no dict that existed before the call has changed
InputsUnmodified == \A address \in 1..Len(heap) : heap'[address] = heap[address]

\* C30: merge_configs resolves conflicts by priority: for every key whose
\* values are not all dictionaries the merged value is the value of the
\* config with the highest priority among those defining the key, the later
\* one among equal priorities; when all are dictionaries they are merged key
\* by key under the same rule; the input dictionaries are left unmodified.
C30_HighestPriorityWins ==
    [][Returned =>
        LET result == ValueOf(heap', merged'[1].ref)
        IN  /\ KeysOf(result) = UNION { KeysOf(InputValue(i)) : i \in 1..Len(configs) }
            /\ \A key \in KeysOf(result) :
                   IF ScalarDefiners(key) /= {}
                   THEN At(result, key) = At(InputValue(LastOf(Definers(key))), key)
                   ELSE SubKeyRule(At(result, key), key, Definers(key))
            /\ InputsUnmodified]_vars

\* C30 (amended): for every key, take the configs defining it in merge order
\* (ascending priority, input order among equal priorities).  If the last one
\* gives a non-dictionary, the merged value is that value; otherwise it is the
\* key-by-key merge, under the same rule, of the dictionaries given by the
\* configs that come after the last config giving a non-dictionary (all of
\* them when every value is a dictionary).  The inputs are left unmodified.
C30_LastWinsDictsMerge ==
    [][Returned =>
        LET result == ValueOf(heap', merged'[1].ref)
        IN  /\ KeysOf(result) = UNION { KeysOf(InputValue(i)) : i \in 1..Len(configs) }
            /\ \A key \in KeysOf(result) :
                   IF ~At(InputValue(LastOf(Definers(key))), key).is_dict
                   THEN At(result, key) = At(InputValue(LastOf(Definers(key))), key)
                   ELSE SubKeyRule(At(result, key), key, TopDictDefiners(key))
            /\ InputsUnmodified]_vars

\* C30 witness: {"k": 1} at FILE was merged with {"k": {"a": 1}} and
\* {"k": {"b": 2}} at HOT_RELOAD: the merged "k" is {"a": 1, "b": 2}, the
\* merge of the two dictionaries that come after the number.
C30_Witness ==
    /\ merged /= None /\ merged[1].raised = ""
    /\ Len(configs) = 3
    /\ priorities = Some(<<FILE, HOT_RELOAD, HOT_RELOAD>>)
    /\ InputValue(1) = <<Entry("k", Num(1))>>
    /\ InputValue(2) = <<Entry("k", Sub(<<Entry("a", Num(1))>>))>>
    /\ InputValue(3) = <<Entry("k", Sub(<<Entry("b", Num(2))>>))>>
    /\ ValueOf(heap, merged[1].ref) =
           <<Entry("k", Sub(<<Entry("a", Num(1)), Entry("b", Num(2))>>))>>

-----------------------------------------------------------------------------
(* bench/config/hotreload.py: ConfigWatcher.  A block under self._lock is   *)
(* one step.  A thread created for _watch_loop is an entry of loops:        *)
(* [pc, files_to_check, i, changed_configs, changed_paths], with pc "new"   *)
(* (created, not started), "test" (at the while test, after the sleep),     *)
(* "check" (in the for loop of _check_files, before its i-th item), "dead". *)
(* A thread calling start() or stop() is at "idle" between calls.           *)

\* dict[key] = value on a dict kept as entries [key, mtime]
Put(d, key, mtime) ==
    IF HasKey(d, key) THEN [d EXCEPT ![KeyIndex(d, key)].mtime = mtime]
    ELSE Append(d, [key |-> key, mtime |-> mtime])

\* del dict[key]
Del(d, key) == SelectSeq(d, LAMBDA e : e.key /= key)

\* merger.load_config_file (lines 78-103): {} for a file that is not there or
\* does not load
LoadConfigFile(path) == IF files[path].exists THEN files[path].config ELSE <<>>

\* watch (lines 32-50); callback is <<>> for None
Watch(path, callback) ==
    /\ watched_files' = IF files[path].exists
                        THEN Put(watched_files, path, files[path].mtime)
                        ELSE watched_files
    /\ callbacks' = IF callback /= None THEN callbacks \cup {callback[1]} ELSE callbacks
    /\ unwatched' = unwatched \ {path}
    /\ UNCHANGED <<files, _running, _thread, loops, callers, notified>>
    /\ UNCHANGED <<heap, configs, priorities, merged>>
    /\ UNCHANGED aggregator_vars

\* unwatch (lines 52-64)
Unwatch(path) ==
    /\ watched_files' = IF HasKey(watched_files, path) THEN Del(watched_files, path)
                        ELSE watched_files
    /\ unwatched' = unwatched \cup {path}
    /\ UNCHANGED <<files, callbacks, _running, _thread, loops, callers, notified>>
    /\ UNCHANGED <<heap, configs, priorities, merged>>
    /\ UNCHANGED aggregator_vars

\* start, lines 68-70: the test of self._running
StartCheck(c) ==
    /\ callers[c] = "idle"
    /\ callers' = IF _running THEN callers ELSE [callers EXCEPT ![c] = "start_set"]
    /\ UNCHANGED <<files, watched_files, callbacks, _running, _thread, loops, notified,
                   unwatched>>
    /\ UNCHANGED <<heap, configs, priorities, merged>>
    /\ UNCHANGED aggregator_vars

\* start, line 72
StartSet(c) ==
    /\ callers[c] = "start_set"
    /\ _running' = TRUE
    /\ callers' = [callers EXCEPT ![c] = "start_create"]
    /\ UNCHANGED <<files, watched_files, callbacks, _thread, loops, notified, unwatched>>
    /\ UNCHANGED <<heap, configs, priorities, merged>>
    /\ UNCHANGED aggregator_vars

NewLoop ==
    [pc |-> "new", files_to_check |-> <<>>, i |-> 0, changed_configs |-> <<>>,
     changed_paths |-> {}]

\* start, line 73: a thread object is created and assigned to self._thread
StartCreate(c) ==
    /\ callers[c] = "start_create"
    /\ loops' = Append(loops, NewLoop)
    /\ _thread' = Len(loops) + 1
    /\ callers' = [callers EXCEPT ![c] = "start_thread"]
    /\ UNCHANGED <<files, watched_files, callbacks, _running, notified, unwatched>>
    /\ UNCHANGED <<heap, configs, priorities, merged>>
    /\ UNCHANGED aggregator_vars

\* start, line 74: self._thread.start(); a thread that was already started
\* raises RuntimeError and start() ends there
StartThread(c) ==
    /\ callers[c] = "start_thread"
    /\ loops' = IF loops[_thread].pc = "new" THEN [loops EXCEPT ![_thread].pc = "test"]
                ELSE loops
    /\ callers' = [callers EXCEPT ![c] = "idle"]
    /\ UNCHANGED <<files, watched_files, callbacks, _running, _thread, notified, unwatched>>
    /\ UNCHANGED <<heap, configs, priorities, merged>>
    /\ UNCHANGED aggregator_vars

\* stop, lines 79-82: the test of self._running and its reset
StopClear(c) ==
    /\ callers[c] = "idle"
    /\ IF _running
       THEN _running' = FALSE /\ callers' = [callers EXCEPT ![c] = "stop_join"]
       ELSE UNCHANGED <<_running, callers>>
    /\ UNCHANGED <<files, watched_files, callbacks, _thread, loops, notified, unwatched>>
    /\ UNCHANGED <<heap, configs, priorities, merged>>
    /\ UNCHANGED aggregator_vars

\* stop, lines 83-85: join(timeout) returns when the thread has ended or when
\* the timeout has passed (it raises on a thread not yet started); stop
\* returns in every case
StopJoin(c) ==
    /\ callers[c] = "stop_join"
    /\ callers' = [callers EXCEPT ![c] = "idle"]
    /\ UNCHANGED <<files, watched_files, callbacks, _running, _thread, loops, notified,
                   unwatched>>
    /\ UNCHANGED <<heap, configs, priorities, merged>>
    /\ UNCHANGED aggregator_vars

\* _watch_loop, line 89, and _check_files, lines 99-102: the while test, and
\* when it passes the snapshot of watched_files taken under the lock
LoopTest(t) ==
    /\ loops[t].pc = "test"
    /\ loops' = IF _running
                THEN [loops EXCEPT ![t] = [pc |-> "check", files_to_check |-> watched_files,
                                           i |-> 1, changed_configs |-> <<>>,
                                           changed_paths |-> {}]]
                ELSE [loops EXCEPT ![t] = [NewLoop EXCEPT !.pc = "dead"]]
    /\ UNCHANGED <<files, watched_files, callbacks, _running, _thread, callers, notified,
                   unwatched>>
    /\ UNCHANGED <<heap, configs, priorities, merged>>
    /\ UNCHANGED aggregator_vars

\* _check_files, lines 104-120: one item of files_to_check
CheckFile(t) ==
    /\ loops[t].pc = "check"
    /\ loops[t].i <= Len(loops[t].files_to_check)
    /\ LET path == loops[t].files_to_check[loops[t].i].key
           last_mtime == loops[t].files_to_check[loops[t].i].mtime
           current_mtime == files[path].mtime
           config == LoadConfigFile(path)
       IN  IF files[path].exists /\ current_mtime > last_mtime
           THEN /\ watched_files' = Put(watched_files, path, current_mtime)
                /\ loops' = [loops EXCEPT
                       ![t].i = @ + 1,
                       ![t].changed_configs = IF config /= <<>> THEN Append(@, config) ELSE @,
                       ![t].changed_paths = IF config /= <<>> THEN @ \cup {path} ELSE @]
           ELSE /\ watched_files' = watched_files
                /\ loops' = [loops EXCEPT ![t].i = @ + 1]
    /\ UNCHANGED <<files, callbacks, _running, _thread, callers, notified, unwatched>>
    /\ UNCHANGED <<heap, configs, priorities, merged>>
    /\ UNCHANGED aggregator_vars

\* _check_files, lines 122-133, and the sleep of line 95: every callback of
\* the set is called with the merge of the changed configs
Notify(t) ==
    /\ loops[t].pc = "check"
    /\ loops[t].i > Len(loops[t].files_to_check)
    /\ notified' =
           IF loops[t].changed_configs /= <<>> /\ callbacks /= {}
           THEN Some([callbacks |-> callbacks,
                      changed |-> loops[t].changed_paths,
                      merged_config |->
                          MergedValue(loops[t].changed_configs,
                                      Some([k \in 1..Len(loops[t].changed_configs) |->
                                               HOT_RELOAD]))])
           ELSE notified
    /\ loops' = [loops EXCEPT ![t] = [NewLoop EXCEPT !.pc = "test"]]
    /\ UNCHANGED <<files, watched_files, callbacks, _running, _thread, callers, unwatched>>
    /\ UNCHANGED <<heap, configs, priorities, merged>>
    /\ UNCHANGED aggregator_vars

\* the file is rewritten: a later mtime, and a content that loads or not
MaxMtime == 2

FileConfig(path) == <<Entry(path, Num(1))>>

Touch(path) ==
    /\ files[path].exists
    /\ files[path].mtime < MaxMtime
    /\ \E config \in {<<>>, FileConfig(path)} :
           files' = [files EXCEPT ![path].mtime = @ + 1, ![path].config = config]
    /\ UNCHANGED <<watched_files, callbacks, _running, _thread, loops, callers, notified,
                   unwatched>>
    /\ UNCHANGED <<heap, configs, priorities, merged>>
    /\ UNCHANGED aggregator_vars

\* the callback a caller passes with a path
CallbackFor(path) == <<"on", path>>

\* a new ConfigWatcher (lines 18-30) in front of the files fs, with n threads
\* that may call start and stop
NewWatcher(fs, n) ==
    /\ files = fs
    /\ watched_files = <<>>
    /\ callbacks = {}
    /\ _running = FALSE
    /\ _thread = 0
    /\ loops = <<>>
    /\ callers = [c \in 1..n |-> "idle"]
    /\ notified = None
    /\ unwatched = {}
    /\ heap = <<>>
    /\ configs = <<>>
    /\ priorities = <<>>
    /\ merged = <<>>
    /\ AggregatorUnused

\* threads can be created while fewer than MaxThreads exist or are about to
MaxThreads == 2

CanStart ==
    Len(loops) + Cardinality({ c \in DOMAIN callers : callers[c] \in {"start_set", "start_create"} })
        < MaxThreads

\* the _watch_loop threads that are running
LiveLoops == { t \in 1..Len(loops) : loops[t].pc \in {"test", "check"} }

-----------------------------------------------------------------------------
(* SpecWatch: one thread that watches, unwatches and starts the watcher,    *)
(* files that change, and the watcher's thread                              *)

WatchPaths == {"a", "b"}

InitWatch ==
    \E fs \in [WatchPaths -> { [exists |-> TRUE, mtime |-> 1, config |-> <<>>] }] :
        NewWatcher([p \in WatchPaths |-> [fs[p] EXCEPT !.config = FileConfig(p)]], 1)

NextWatch ==
    \/ \E path \in WatchPaths : \E callback \in {None, Some(CallbackFor(path))} :
           Watch(path, callback)
    \/ \E path \in WatchPaths : Unwatch(path)
    \/ \E path \in WatchPaths : Touch(path)
    \/ \E c \in DOMAIN callers : CanStart /\ StartCheck(c)
    \/ \E c \in DOMAIN callers : StartSet(c)
    \/ \E c \in DOMAIN callers : StartCreate(c)
    \/ \E c \in DOMAIN callers : StartThread(c)
    \/ \E t \in 1..Len(loops) : LoopTest(t)
    \/ \E t \in 1..Len(loops) : CheckFile(t)
    \/ \E t \in 1..Len(loops) : Notify(t)

SpecWatch == InitWatch /\ [][NextWatch]_vars

\* C27: once unwatch(path) has returned, path is absent from watched_files in
\* every later state until watch(path) is called again, whatever the watcher
\* thread does in between.
C27_UnwatchedStaysOut ==
    \A path \in unwatched : ~HasKey(watched_files, path)

\* C29: a callback registered through watch(path, callback) is called only in
\* a _check_files pass in which path itself was found changed (a later mtime
\* and a non-empty config loaded), not when only another watched file
\* changed, and not for path after unwatch(path).
C29_CallbackOnlyForItsFile ==
    [][notified' /= notified =>
        \A callback \in notified'[1].callbacks :
            \E path \in notified'[1].changed :
                callback = CallbackFor(path) /\ path \notin unwatched]_vars

-----------------------------------------------------------------------------
(* SpecThreads: two threads that call start() and stop() on one watcher    *)
(* with one watched file                                                    *)

ThreadsPaths == {"a"}

InitThreads ==
    NewWatcher([p \in ThreadsPaths |-> [exists |-> TRUE, mtime |-> 1, config |-> FileConfig(p)]],
               2)

NextThreads ==
    \/ \E path \in ThreadsPaths : Watch(path, Some(CallbackFor(path)))
    \/ \E path \in ThreadsPaths : Touch(path)
    \/ \E c \in DOMAIN callers : CanStart /\ StartCheck(c)
    \/ \E c \in DOMAIN callers : StartSet(c)
    \/ \E c \in DOMAIN callers : StartCreate(c)
    \/ \E c \in DOMAIN callers : StartThread(c)
    \/ \E c \in DOMAIN callers : StopClear(c)
    \/ \E c \in DOMAIN callers : StopJoin(c)
    \/ \E t \in 1..Len(loops) : LoopTest(t)
    \/ \E t \in 1..Len(loops) : CheckFile(t)
    \/ \E t \in 1..Len(loops) : Notify(t)

SpecThreads == InitThreads /\ [][NextThreads]_vars

\* C28: over every sequence and interleaving of start() and stop() calls there
\* is never a state with two live _watch_loop threads.
C28_AtMostOneLoop == Cardinality(LiveLoops) <= 1

====
